---- MODULE Spec2Model ----
(***************************************************************************)
(* A model of the temporal-ai vector store (crates/temporal-ai): the five  *)
(* redb tables, the write transactions of insert / insert_batch /          *)
(* update_metrics, and the read transactions of the lookups.               *)
(*                                                                         *)
(* Conventions.                                                            *)
(*  - Option<T> is a sequence of length at most one: <<>> is None and     *)
(*    <<x>> is Some(x).                                                    *)
(*  - A pattern id, an index key's id list element: a natural number that  *)
(*    stands for the id string; the order of the naturals is the           *)
(*    lexicographic order of the strings (Vec<String>::sort).              *)
(*  - A vector is [len, fill]: the vector vec![fill; len] that every test  *)
(*    of the repository builds (vec![0.1; 768]); fill is a sample f32.     *)
(*  - A redb write transaction works on a private copy of the tables (txn) *)
(*    that replaces the committed tables (db) at commit() and is discarded *)
(*    when the transaction is dropped without commit (an early `?` return  *)
(*    or a panic unwinding through the call).                              *)
(***************************************************************************)
EXTENDS Integers, Sequences, FiniteSets, TLC

VARIABLES
    db,        \* the committed tables, what a new read transaction sees
    result,    \* the last write call: its operation and its outcome
    inserted,  \* history: per id, the (pattern, embedding) of the latest committed insert
    named,     \* history: the tags and file paths named by the committed inserts
    batch,     \* the insert_batch call in progress: position, transaction and locals
    reader,    \* a concurrent get_embedding_and_pattern call: position and locals
    call,      \* the search_filtered, with_weights or rank call of the client
    perf,      \* a PerformanceMetrics object owned by the client
    recorded,  \* history: the (score, feedback) arguments of its record_recommendation calls
    repo,      \* the commits reachable from HEAD, in the order of the revwalk
    observe    \* vibepro-observe: the statics, the global provider and the calling threads

\* The variables outside the vector store and its clients.
others == <<perf, recorded, repo, observe>>

vars == <<db, result, inserted, named, batch, reader, call, others>>

----------------------------------------------------------------------------
(* Program constants *)

EMBEDDING_DIM == 768
SCHEMA_VERSION == 1

(* Bounds of the model *)

MaxId == 2       \* pattern ids are 1..MaxId
MaxBatch == 2    \* the longest records list given to insert_batch
MaxUsage == 1    \* the largest usage_count given to update_metrics

PatternIds == 1..MaxId
Tags == {"rust", "test"}
FilePaths == {"src/main.rs", "src/lib.rs"}
Floats == {1, 2}
Now == 1700000000

None == <<>>
Some(x) == <<x>>

----------------------------------------------------------------------------
(* Input values *)

Pattern(id, file_paths, tags) ==
    [id |-> id, description |-> "Test pattern", file_paths |-> file_paths,
     commit_sha |-> "abc123", timestamp |-> 1234567890, tags |-> tags]

\* The test pattern of the repository, and one that names a path and a tag twice.
Patterns ==
    {Pattern(id, <<"src/main.rs">>, <<"rust", "test">>) : id \in PatternIds}
    \cup {Pattern(id, <<"src/lib.rs", "src/lib.rs">>, <<"test", "test">>) : id \in PatternIds}

Vec(n, c) == [len |-> n, fill |-> c]

\* Valid vectors, one that is too short and one that is too long.
Vectors ==
    {Vec(EMBEDDING_DIM, c) : c \in Floats}
    \cup {Vec(EMBEDDING_DIM - 1, 1), Vec(EMBEDDING_DIM + 1, 1)}

PerformanceMetrics_new ==
    [usage_count |-> 0, avg_relevance_score |-> 0, last_recommended |-> 0,
     feedback_scores |-> <<>>, success_rate |-> None, avg_latency_ms |-> None,
     error_rate |-> None]

MetricsInputs ==
    {[PerformanceMetrics_new EXCEPT !.usage_count = n] : n \in 0..MaxUsage}

----------------------------------------------------------------------------
(* Helpers *)

Min(S) == CHOOSE x \in S : \A y \in S : x <= y

RECURSIVE SortedVec(_)
\* Vec::sort of the elements of a set
SortedVec(S) == IF S = {} THEN <<>> ELSE <<Min(S)>> \o SortedVec(S \ {Min(S)})

SeqToSet(s) == {s[i] : i \in 1..Len(s)}

RECURSIVE ISqrtIn(_, _, _)
ISqrtIn(n, lo, hi) ==
    IF lo >= hi THEN lo
    ELSE LET mid == (lo + hi + 1) \div 2
         IN IF mid * mid <= n THEN ISqrtIn(n, mid, hi) ELSE ISqrtIn(n, lo, mid - 1)

\* f32::sqrt, rounded down to an integer
Sqrt(n) == ISqrtIn(n, 0, IF n < 46340 THEN n ELSE 46340)

----------------------------------------------------------------------------
(* schema.rs *)

\* sum of the squares of the elements, then the square root
compute_norm(v) == Sqrt(v.len * (v.fill * v.fill))

\* Variant: a vector of the wrong length is truncated or padded to EMBEDDING_DIM.
EmbeddingRecord_new_resizing(vector, now) ==
    LET resized == [vector EXCEPT !.len = EMBEDDING_DIM]
    IN Some([vector |-> resized, norm |-> compute_norm(resized),
             created_at |-> now, version |-> SCHEMA_VERSION])

\* Some(record), or None when the assert_eq! on the length panics
EmbeddingRecord_new(vector, now) ==
    IF vector.len # EMBEDDING_DIM THEN None
    ELSE Some([vector |-> vector, norm |-> compute_norm(vector),
               created_at |-> now, version |-> SCHEMA_VERSION])

----------------------------------------------------------------------------
(* Encodings of the stored values *)

\* rmp_serde::to_vec: a struct is the MessagePack array of its fields in order
to_vec(record) == <<record.vector, record.norm, record.created_at, record.version>>

\* rmp_serde::from_slice::<EmbeddingRecord>
from_slice(bytes) ==
    [vector |-> bytes[1], norm |-> bytes[2], created_at |-> bytes[3], version |-> bytes[4]]

\* serde_json::to_string: an object is the list of its (name, value) members in order
pattern_to_string(p) ==
    << <<"id", p.id>>, <<"description", p.description>>, <<"file_paths", p.file_paths>>,
       <<"commit_sha", p.commit_sha>>, <<"timestamp", p.timestamp>>, <<"tags", p.tags>> >>

Member(json, name) == json[CHOOSE i \in 1..Len(json) : json[i][1] = name][2]

\* serde_json::from_str::<Pattern>
pattern_from_str(json) ==
    [id |-> Member(json, "id"), description |-> Member(json, "description"),
     file_paths |-> Member(json, "file_paths"), commit_sha |-> Member(json, "commit_sha"),
     timestamp |-> Member(json, "timestamp"), tags |-> Member(json, "tags")]

\* an Option<f32> member is null (<<>>) or the number (<<x>>)
metrics_to_string(m) ==
    << <<"usage_count", m.usage_count>>, <<"avg_relevance_score", m.avg_relevance_score>>,
       <<"last_recommended", m.last_recommended>>, <<"feedback_scores", m.feedback_scores>>,
       <<"success_rate", m.success_rate>>, <<"avg_latency_ms", m.avg_latency_ms>>,
       <<"error_rate", m.error_rate>> >>

\* serde_json::from_str::<PerformanceMetrics>
metrics_from_str(json) ==
    [usage_count |-> Member(json, "usage_count"),
     avg_relevance_score |-> Member(json, "avg_relevance_score"),
     last_recommended |-> Member(json, "last_recommended"),
     feedback_scores |-> Member(json, "feedback_scores"),
     success_rate |-> Member(json, "success_rate"),
     avg_latency_ms |-> Member(json, "avg_latency_ms"),
     error_rate |-> Member(json, "error_rate")]

----------------------------------------------------------------------------
(* vector_store.rs: the tables and the write transaction *)

\* VectorStore::open on a new file: the five tables, empty
EmptyTables ==
    [embeddings |-> [k \in PatternIds |-> None],
     metadata |-> [k \in PatternIds |-> None],
     metrics |-> [k \in PatternIds |-> None],
     file_path_index |-> [k \in FilePaths |-> None],
     tag_index |-> [k \in Tags |-> None]]

\* Table::insert
TableInsert(table, key, value) == [table EXCEPT ![key] = Some(value)]

\* Variant: the id is pushed to the stored list, which is neither de-duplicated nor sorted.
update_index_entry_push(table, key, pattern_id) ==
    TableInsert(table, key,
                (IF table[key] = None THEN <<>> ELSE table[key][1]) \o <<pattern_id>>)

update_index_entry(table, key, pattern_id) ==
    LET existing == table[key]
        is_new == existing = None
        ids == IF is_new THEN {} ELSE SeqToSet(existing[1])
        was_inserted == pattern_id \notin ids
    IN IF was_inserted \/ is_new
       THEN TableInsert(table, key, SortedVec(ids \cup {pattern_id}))
       ELSE table

\* Variant: the body of insert ends before the loop over the tags.
NumWrites_before_tags(pattern) == 3 + Len(pattern.file_paths)

\* The number of table writes the body of insert makes for a pattern.
NumWrites(pattern) == 3 + Len(pattern.file_paths) + Len(pattern.tags)

\* The n-th table write of the body of insert, applied to the transaction's tables.
ApplyWrite(txn, pattern, record, n) ==
    IF n = 1 THEN
        [txn EXCEPT !.embeddings = TableInsert(@, pattern.id, to_vec(record))]
    ELSE IF n = 2 THEN
        [txn EXCEPT !.metadata = TableInsert(@, pattern.id, pattern_to_string(pattern))]
    ELSE IF n = 3 THEN
        [txn EXCEPT !.metrics =
            TableInsert(@, pattern.id, metrics_to_string(PerformanceMetrics_new))]
    ELSE IF n <= 3 + Len(pattern.file_paths) THEN
        [txn EXCEPT !.file_path_index =
            update_index_entry(@, pattern.file_paths[n - 3], pattern.id)]
    ELSE
        [txn EXCEPT !.tag_index =
            update_index_entry(@, pattern.tags[n - 3 - Len(pattern.file_paths)], pattern.id)]

RECURSIVE ApplyWrites(_, _, _, _)
\* The transaction's tables after the first n writes of the body of insert.
ApplyWrites(txn, pattern, record, n) ==
    IF n = 0 THEN txn
    ELSE ApplyWrite(ApplyWrites(txn, pattern, record, n - 1), pattern, record, n)

\* write_txn.commit(): the transaction's tables become the committed ones
Commit(committed, txn) == txn

\* Variant: the writes made before the error stay (each table write its own commit).
AbortKeepsWrites(committed, txn) == txn

\* write_txn dropped without commit: the committed tables stay
Abort(committed, txn) == committed

\* Result<T>
Ok(x) == [tag |-> "Ok", value |-> x]

\* What insert(pattern, embedding) leaves committed and how it ends. fault = Some(k),
\* k in 0..NumWrites(pattern): a storage or serialization error stops the call after k
\* table writes (0: in begin_write, NumWrites: in commit); fault = None: no error.
insert_outcome(committed, pattern, embedding, now, fault) ==
    LET record == EmbeddingRecord_new(embedding, now)
    IN IF record = None THEN
           [db |-> committed, outcome |-> "panic"]
       ELSE IF fault # None THEN
           [db |-> Abort(committed, ApplyWrites(committed, pattern, record[1], fault[1])),
            outcome |-> "err"]
       ELSE
           [db |-> Commit(committed,
                          ApplyWrites(committed, pattern, record[1], NumWrites(pattern))),
            outcome |-> "ok"]

\* Variant: a record whose id the transaction's tables already hold is passed over.
insert_batch_record_keeps_first(txn, record, now, fault) ==
    LET embedding_record == EmbeddingRecord_new(record.embedding, now)
    IN IF embedding_record = None THEN
           [txn |-> txn, outcome |-> "panic"]
       ELSE IF txn.metadata[record.pattern.id] # None THEN
           [txn |-> txn, outcome |-> "next"]
       ELSE
           [txn |-> ApplyWrites(txn, record.pattern, embedding_record[1],
                                NumWrites(record.pattern)),
            outcome |-> "next"]

\* One pass of the loop of insert_batch, over `record`, on the transaction's tables:
\* "next" when the pass completes, "panic" when the vector has the wrong length
\* (before any write of the record), "err" when an error stops it after k writes
\* (fault = Some(k)).
insert_batch_record(txn, record, now, fault) ==
    LET embedding_record == EmbeddingRecord_new(record.embedding, now)
    IN IF embedding_record = None THEN
           [txn |-> txn, outcome |-> "panic"]
       ELSE IF fault # None THEN
           [txn |-> ApplyWrites(txn, record.pattern, embedding_record[1], fault[1]),
            outcome |-> "err"]
       ELSE
           [txn |-> ApplyWrites(txn, record.pattern, embedding_record[1],
                                NumWrites(record.pattern)),
            outcome |-> "next"]

\* Variant: a commit per record, as N calls of insert would make.
AfterRecordCommits(committed, txn) == txn

\* The committed tables when a pass of the loop ends: insert_batch commits only
\* after the loop.
AfterRecord(committed, txn) == committed

RECURSIVE insert_batch_passes(_, _, _)
\* The loop of insert_batch over `records` without a storage error: the
\* transaction's tables and "next", or "panic" at the first vector of a wrong length.
insert_batch_passes(txn, records, now) ==
    IF records = <<>> THEN [txn |-> txn, outcome |-> "next"]
    ELSE LET pass == insert_batch_record(txn, Head(records), now, None)
         IN IF pass.outcome = "next"
            THEN insert_batch_passes(pass.txn, Tail(records), now)
            ELSE pass

\* What insert_batch(records) leaves committed and how it ends; fault: commit fails.
insert_batch_outcome(committed, records, now, fault) ==
    LET passes == insert_batch_passes(committed, records, now)
    IN IF passes.outcome # "next"
       THEN [db |-> Abort(committed, passes.txn), outcome |-> passes.outcome]
       ELSE IF fault
       THEN [db |-> Abort(committed, passes.txn), outcome |-> "err"]
       ELSE [db |-> Commit(committed, passes.txn), outcome |-> "ok"]

\* Variant: an error in commit leaves the write in the committed tables.
update_metrics_outcome_torn(committed, pattern_id, metrics, fault) ==
    LET txn == [committed EXCEPT
                    !.metrics = TableInsert(@, pattern_id, metrics_to_string(metrics))]
    IN [db |-> IF fault = Some(0) THEN committed ELSE txn,
        outcome |-> IF fault # None THEN "err" ELSE "ok"]

\* What update_metrics(pattern_id, metrics) leaves committed and how it ends.
\* fault = Some(0): an error before the write, Some(1): in commit, None: no error.
update_metrics_outcome(committed, pattern_id, metrics, fault) ==
    LET txn == [committed EXCEPT
                    !.metrics = TableInsert(@, pattern_id, metrics_to_string(metrics))]
    IN IF fault # None THEN
           [db |-> Abort(committed, IF fault[1] = 0 THEN committed ELSE txn),
            outcome |-> "err"]
       ELSE [db |-> Commit(committed, txn), outcome |-> "ok"]

----------------------------------------------------------------------------
(* vector_store.rs: the lookups, each in one read transaction over `tables` *)

\* Variant: the lookup returns EmbeddingRecord::normalized() instead of the vector.
get_embedding_normalized(tables, pattern_id) ==
    IF tables.embeddings[pattern_id] # None
    THEN LET record == from_slice(tables.embeddings[pattern_id][1])
         IN Ok(Some([record.vector EXCEPT !.fill = @ \div record.norm]))
    ELSE Ok(None)

get_embedding(tables, pattern_id) ==
    IF tables.embeddings[pattern_id] # None
    THEN Ok(Some(from_slice(tables.embeddings[pattern_id][1]).vector))
    ELSE Ok(None)

get_pattern(tables, pattern_id) ==
    IF tables.metadata[pattern_id] # None
    THEN Ok(Some(pattern_from_str(tables.metadata[pattern_id][1])))
    ELSE Ok(None)

get_metrics(tables, pattern_id) ==
    IF tables.metrics[pattern_id] # None
    THEN Ok(Some(metrics_from_str(tables.metrics[pattern_id][1])))
    ELSE Ok(None)

\* The two table reads of get_embedding_and_pattern, given what each table holds
\* for the id.
embedding_and_pattern(embedding_bytes, pattern_json) ==
    IF embedding_bytes = None THEN Ok(None)
    ELSE IF pattern_json = None THEN Ok(None)
    ELSE Ok(Some(<<from_slice(embedding_bytes[1]).vector, pattern_from_str(pattern_json[1])>>))

get_embedding_and_pattern(tables, pattern_id) ==
    embedding_and_pattern(tables.embeddings[pattern_id], tables.metadata[pattern_id])

find_by_file_path(tables, file_path) ==
    IF tables.file_path_index[file_path] # None
    THEN Ok(tables.file_path_index[file_path][1])
    ELSE Ok(<<>>)

find_by_tag(tables, tag) ==
    IF tables.tag_index[tag] # None
    THEN Ok(tables.tag_index[tag][1])
    ELSE Ok(<<>>)

----------------------------------------------------------------------------
(* vector_store.rs: open *)

TableNames == <<"embeddings", "metadata", "metrics", "file_path_index", "tag_index">>

\* Variant: the table is created anew, as on a new file.
open_table_create(txn, name) == [txn EXCEPT ![name] = EmptyTables[name]]

\* write_txn.open_table(NAME): the table as it is, created empty when the file lacks it
open_table(txn, name) ==
    IF name \in DOMAIN txn THEN txn ELSE (name :> EmptyTables[name]) @@ txn

RECURSIVE OpenTables(_, _)
\* The transaction's tables after the first n open_table calls of open.
OpenTables(txn, n) ==
    IF n = 0 THEN txn ELSE open_table(OpenTables(txn, n - 1), TableNames[n])

\* What open leaves committed on the file of an existing store and how it ends.
\* fault = Some(k): create_dir_all, Database::create or begin_write (k = 0), the k-th
\* open_table call or commit (k = Len(TableNames)) returns an error.
open_outcome(committed, fault) ==
    IF fault # None
    THEN [db |-> Abort(committed, OpenTables(committed, fault[1])), outcome |-> "err"]
    ELSE [db |-> Commit(committed, OpenTables(committed, Len(TableNames))),
          outcome |-> "ok"]

\* VectorStore::list_patterns: the keys of the metadata table, in key order
list_patterns(tables) ==
    Ok(SortedVec({id \in PatternIds : tables.metadata[id] # None}))

----------------------------------------------------------------------------
(* similarity.rs. An f32 score is an integer number of thousandths. *)

\* 1.0 as a score
One == 1000

\* SearchFilters
SearchFilters(min_score, file_path_glob, tags, since_timestamp) ==
    [min_score |-> min_score, file_path_glob |-> file_path_glob, tags |-> tags,
     since_timestamp |-> since_timestamp]

SearchFilters_default == SearchFilters(None, None, <<>>, None)

\* dot_product_avx and dot_product_fallback: the sum of the products, for two vectors
\* of one length
dot_product_simd(a, b) == a.len * (a.fill * b.fill)

\* the sum of the squares under the square root of l2_norm
SumOfSquares(v) == v.len * (v.fill * v.fill)

\* l2_norm(a) * l2_norm(b), as the square root of the product of the two sums
NormProduct(a, b) == Sqrt(SumOfSquares(a) * SumOfSquares(b))

cosine_similarity(a, b) ==
    IF a.len # b.len THEN 0
    ELSE IF SumOfSquares(a) = 0 \/ SumOfSquares(b) = 0 THEN 0
    ELSE (dot_product_simd(a, b) * One) \div NormProduct(a, b)

\* Variant: the result carries the lowest score whatever the candidate's score is.
SimilarityResult_unscored(pattern_id, score, pattern) ==
    [pattern_id |-> pattern_id, score |-> 0 - One, pattern |-> pattern]

\* SimilarityResult
SimilarityResult(pattern_id, score, pattern) ==
    [pattern_id |-> pattern_id, score |-> score, pattern |-> pattern]

\* Variant: the natural order of the scores, which makes the BinaryHeap a max-heap.
SimilarityResult_le_natural(a, b) == a.score <= b.score

\* a <= b in the Ord of SimilarityResult: cmp is other.score.partial_cmp(&self.score),
\* so the lower score is the greater element
SimilarityResult_le(a, b) == b.score <= a.score

RECURSIVE sift_up(_, _, _)
\* BinaryHeap::sift_up: element e, taken out of position pos (from 1), moves up while
\* it is greater than its parent
sift_up(data, pos, e) ==
    IF pos > 1 /\ ~SimilarityResult_le(e, data[pos \div 2])
    THEN sift_up([data EXCEPT ![pos] = data[pos \div 2]], pos \div 2, e)
    ELSE [data EXCEPT ![pos] = e]

\* BinaryHeap::push
heap_push(data, item) == sift_up(Append(data, item), Len(data) + 1, item)

RECURSIVE sift_down_to_bottom(_, _, _)
\* BinaryHeap::sift_down_to_bottom: the hole at pos moves down to a leaf along the
\* greater children, then element e is put there and sifted up
sift_down_to_bottom(data, pos, e) ==
    LET child == 2 * pos
    IN IF child + 1 <= Len(data)
       THEN LET c == IF SimilarityResult_le(data[child], data[child + 1])
                     THEN child + 1 ELSE child
            IN sift_down_to_bottom([data EXCEPT ![pos] = data[c]], c, e)
       ELSE IF child = Len(data)
       THEN sift_up([data EXCEPT ![pos] = data[child]], child, e)
       ELSE sift_up(data, pos, e)

\* BinaryHeap::pop, the heap that is left: the last element replaces the greatest
heap_pop(data) ==
    LET last == data[Len(data)]
        rest == SubSeq(data, 1, Len(data) - 1)
    IN IF rest = <<>> THEN rest ELSE sift_down_to_bottom(rest, 1, last)

RECURSIVE InsertByScore(_, _)
\* r put after the results of `sorted` that do not score less than r
InsertByScore(sorted, r) ==
    IF sorted = <<>> THEN <<r>>
    ELSE IF Head(sorted).score >= r.score THEN <<Head(sorted)>> \o InsertByScore(Tail(sorted), r)
    ELSE <<r>> \o sorted

RECURSIVE sort_by_score(_)
\* results.sort_by(|a, b| b.score.partial_cmp(&a.score)): stable, descending
sort_by_score(results) ==
    IF results = <<>> THEN <<>>
    ELSE InsertByScore(sort_by_score(SubSeq(results, 1, Len(results) - 1)),
                       results[Len(results)])

\* Result::Err
Err(e) == [tag |-> "Err", value |-> e]

\* The glob strings given as file_path_glob; the last one has an unclosed bracket.
Globs == {"src/*.rs", "src/lib.rs", "src/["}

\* glob::Pattern::new
glob_Pattern_new(glob_str) ==
    IF glob_str = "src/[" THEN Err("PatternError") ELSE Ok(glob_str)

\* glob::Pattern::matches, for the globs and the file paths of the model
glob_matches(glob_pattern, file_path) ==
    \/ glob_pattern = "src/*.rs" /\ file_path \in {"src/main.rs", "src/lib.rs"}
    \/ glob_pattern = "src/lib.rs" /\ file_path = "src/lib.rs"

RECURSIVE InsertAscending(_, _)
InsertAscending(sorted, x) ==
    IF sorted = <<>> THEN <<x>>
    ELSE IF Head(sorted) <= x THEN <<Head(sorted)>> \o InsertAscending(Tail(sorted), x)
    ELSE <<x>> \o sorted

RECURSIVE sort_unstable(_)
\* Vec<String>::sort_unstable: ascending, equal elements kept
sort_unstable(v) ==
    IF v = <<>> THEN <<>>
    ELSE InsertAscending(sort_unstable(SubSeq(v, 1, Len(v) - 1)), v[Len(v)])

\* Variant: the candidate list keeps its repeated ids.
dedup_nothing(v) == v

RECURSIVE dedup(_)
\* Vec::dedup: of consecutive equal elements the first one stays
dedup(v) ==
    IF Len(v) <= 1 THEN v
    ELSE IF v[1] = v[2] THEN dedup(Tail(v))
    ELSE <<v[1]>> \o dedup(Tail(v))

RECURSIVE ExtendByTags(_, _, _)
\* candidates.extend(find_by_tag(tag)) for the first n tags
ExtendByTags(tables, tags, n) ==
    IF n = 0 THEN <<>>
    ELSE ExtendByTags(tables, tags, n - 1) \o find_by_tag(tables, tags[n]).value

RECURSIVE SelectByGlob(_, _, _)
\* the ids of `ids` whose pattern has a file path that the glob matches, in order
SelectByGlob(tables, glob_pattern, ids) ==
    IF ids = <<>> THEN <<>>
    ELSE LET pattern == get_pattern(tables, Head(ids)).value
             rest == SelectByGlob(tables, glob_pattern, Tail(ids))
         IN IF /\ pattern # None
               /\ \E i \in 1..Len(pattern[1].file_paths) :
                      glob_matches(glob_pattern, pattern[1].file_paths[i])
            THEN <<Head(ids)>> \o rest
            ELSE rest

get_candidate_pattern_ids(tables, filters) ==
    IF filters.tags # <<>>
    THEN Ok(dedup(sort_unstable(ExtendByTags(tables, filters.tags, Len(filters.tags)))))
    ELSE IF filters.file_path_glob # None
    THEN LET glob_pattern == glob_Pattern_new(filters.file_path_glob[1])
         IN IF glob_pattern.tag = "Err" THEN Err("IoError")
            ELSE Ok(SelectByGlob(tables, glob_pattern.value, list_patterns(tables).value))
    ELSE list_patterns(tables)

\* pattern.timestamp < since, when since_timestamp is set
older_than(pattern, since_timestamp) ==
    since_timestamp # None /\ pattern.timestamp < since_timestamp[1]

\* Variant: a score equal to min_score is dropped too.
below_min_score_or_equal(score, min_score) == min_score # None /\ score <= min_score[1]

\* score < min_score, when min_score is set
below_min_score(score, min_score) == min_score # None /\ score < min_score[1]

\* One pass of the loop of search_filtered: the heap after candidate pattern_id.
search_candidate(tables, query_embedding, k, filters, heap, pattern_id) ==
    LET data == get_embedding_and_pattern(tables, pattern_id).value
    IN IF data = None THEN heap
       ELSE LET embedding == data[1][1]
                pattern == data[1][2]
                score == cosine_similarity(query_embedding, embedding)
            IN IF older_than(pattern, filters.since_timestamp) THEN heap
               ELSE IF below_min_score(score, filters.min_score) THEN heap
               ELSE LET pushed == heap_push(heap, SimilarityResult(pattern_id, score, pattern))
                    IN IF Len(pushed) > k THEN heap_pop(pushed) ELSE pushed

RECURSIVE search_loop(_, _, _, _, _, _)
\* The heap after the first n candidates.
search_loop(tables, query_embedding, k, filters, pattern_ids, n) ==
    IF n = 0 THEN <<>>
    ELSE search_candidate(tables, query_embedding, k, filters,
                          search_loop(tables, query_embedding, k, filters, pattern_ids, n - 1),
                          pattern_ids[n])

\* search_filtered over the committed tables: the candidate ids (None when their
\* selection failed) and the returned value
search_filtered_outcome(tables, query_embedding, k, filters) ==
    LET pattern_ids == get_candidate_pattern_ids(tables, filters)
    IN IF pattern_ids.tag = "Err" THEN [pattern_ids |-> None, ret |-> pattern_ids]
       ELSE [pattern_ids |-> Some(pattern_ids.value),
             ret |-> Ok(sort_by_score(search_loop(tables, query_embedding, k, filters,
                                                  pattern_ids.value,
                                                  Len(pattern_ids.value))))]

----------------------------------------------------------------------------
(* ranker.rs. A weight is an integer number of millionths; a component score is a  *)
(* number of thousandths, as in similarity.rs; a final score, the sum of weight    *)
(* times score, is a number of billionths.                                         *)

\* 1.0 as a weight
Micro == 1000000

\* 1.0 as a final score
Nano == Micro * One

\* f32 division, rounded down
Div(a, b) == IF b < 0 THEN (0 - a) \div (0 - b) ELSE a \div b

\* the product of two numbers of millionths between 0 and 1
MulMicro(a, b) == ((a \div 1000) * b) \div 1000 + ((a % 1000) * b) \div Micro

RECURSIVE ExpSeries(_, _, _, _)
\* the terms of the series of exp(-x) from the n-th on, x < 1 in thousandths
ExpSeries(x, n, magnitude, sign) ==
    IF magnitude = 0 THEN 0
    ELSE sign * magnitude + ExpSeries(x, n + 1, (magnitude * x) \div (1000 * n), 0 - sign)

RECURSIVE ExpMinus(_)
\* exp(-n) for a natural n
ExpMinus(n) == IF n = 0 THEN Micro ELSE MulMicro(ExpMinus(n - 1), 367879)

\* f32::exp of -x, x >= 0 in thousandths; below a millionth from x = 14 on
exp_minus(x) ==
    IF x >= 14000 THEN 0
    ELSE MulMicro(ExpMinus(x \div 1000), ExpSeries(x % 1000, 1, Micro, 1))

\* RecommendationRanker (the weights)
RecommendationRanker(recency, usage, similarity, success_rate) ==
    [recency_weight |-> recency, usage_weight |-> usage,
     similarity_weight |-> similarity, success_rate_weight |-> success_rate]

RecommendationRanker_new == RecommendationRanker(200000, 300000, 350000, 150000)

\* Variant: the weights are stored as given.
with_weights_as_given(recency, usage, similarity, success_rate) ==
    RecommendationRanker(recency * Micro, usage * Micro, similarity * Micro,
                         success_rate * Micro)

\* RecommendationRanker::with_weights. The sample inputs are whole numbers, so that
\* total.abs() <= f32::EPSILON is total = 0.
with_weights(recency, usage, similarity, success_rate) ==
    LET total == recency + usage + similarity + success_rate
    IN IF total = 0
       THEN RecommendationRanker(250000, 250000, 250000, 250000)
       ELSE RecommendationRanker(Div(recency * Micro, total), Div(usage * Micro, total),
                                 Div(similarity * Micro, total),
                                 Div(success_rate * Micro, total))

\* .ok().flatten() of a Result<Option<T>>
ok_flatten(r) == IF r.tag = "Err" THEN None ELSE r.value

\* Variant: a pattern without metrics gets the success rate 0.0.
metrics_scores_zero_default(m) ==
    IF m = None THEN [usage_score |-> 0, usage_count |-> 0, success_rate_score |-> 0]
    ELSE [usage_score |-> IF m[1].usage_count * 10 < One THEN m[1].usage_count * 10 ELSE One,
          usage_count |-> m[1].usage_count,
          success_rate_score |-> IF m[1].success_rate = None THEN 0
                                 ELSE m[1].success_rate[1]]

\* .map_or((0.0, 0, 0.5), |m| ((m.usage_count as f32 / 100.0).min(1.0), m.usage_count,
\* m.success_rate.unwrap_or(0.5)))
metrics_scores(m) ==
    IF m = None THEN [usage_score |-> 0, usage_count |-> 0, success_rate_score |-> 500]
    ELSE [usage_score |-> IF m[1].usage_count * 10 < One THEN m[1].usage_count * 10 ELSE One,
          usage_count |-> m[1].usage_count,
          success_rate_score |-> IF m[1].success_rate = None THEN 500
                                 ELSE m[1].success_rate[1]]

\* 0.01 * days_since in thousandths: ((now - timestamp) / 86400.0).max(0.0) / 100
hundredth_of_days_since(now, timestamp) ==
    IF now - timestamp < 0 THEN 0 ELSE (now - timestamp) \div 8640

\* days_since.round() as i64
days_ago(now, timestamp) ==
    IF now - timestamp < 0 THEN 0 ELSE (now - timestamp + 43200) \div 86400

\* generate_explanation: the values the format string is filled with
generate_explanation(pattern, similarity, days, usage_count, success_rate) ==
    [commit_short |-> pattern.commit_sha, tags |-> pattern.tags,
     description |-> pattern.description, similarity |-> similarity,
     days_ago |-> days, day_label |-> IF days = 1 THEN "day" ELSE "days",
     usage_count |-> usage_count, success_rate |-> success_rate]

\* The closure of rank: the Recommendation of one result `res`. metrics is what
\* self.store.get_metrics(&result.pattern.id) returned.
recommend(self, now, res, metrics) ==
    LET recency_score == exp_minus(hundredth_of_days_since(now, res.pattern.timestamp))
                             \div 1000
        m == metrics_scores(ok_flatten(metrics))
    IN [pattern |-> res.pattern,
        similarity_score |-> res.score,
        recency_score |-> recency_score,
        usage_score |-> m.usage_score,
        final_score |-> self.similarity_weight * res.score
                        + self.recency_weight * recency_score
                        + self.usage_weight * m.usage_score
                        + self.success_rate_weight * m.success_rate_score,
        explanation |-> generate_explanation(res.pattern, res.score,
                                             days_ago(now, res.pattern.timestamp),
                                             m.usage_count, m.success_rate_score)]

RECURSIVE InsertByFinalScore_ascending(_, _)
\* Variant: the comparison is a.final_score.partial_cmp(&b.final_score).
InsertByFinalScore_ascending(sorted, r) ==
    IF sorted = <<>> THEN <<r>>
    ELSE IF Head(sorted).final_score <= r.final_score
    THEN <<Head(sorted)>> \o InsertByFinalScore_ascending(Tail(sorted), r)
    ELSE <<r>> \o sorted

RECURSIVE InsertByFinalScore(_, _)
\* r put after the recommendations of `sorted` whose final score is not less
InsertByFinalScore(sorted, r) ==
    IF sorted = <<>> THEN <<r>>
    ELSE IF Head(sorted).final_score >= r.final_score
    THEN <<Head(sorted)>> \o InsertByFinalScore(Tail(sorted), r)
    ELSE <<r>> \o sorted

RECURSIVE sort_by_final_score(_)
\* recommendations.sort_by(|a, b| b.final_score.partial_cmp(&a.final_score)):
\* stable, descending
sort_by_final_score(recommendations) ==
    IF recommendations = <<>> THEN <<>>
    ELSE InsertByFinalScore(
             sort_by_final_score(SubSeq(recommendations, 1, Len(recommendations) - 1)),
             recommendations[Len(recommendations)])

\* RecommendationRanker::rank over the committed tables. failing: the ids whose
\* get_metrics call returns a storage error.
rank_outcome(self, tables, now, results, failing) ==
    Ok(sort_by_final_score(
           [i \in 1..Len(results) |->
               recommend(self, now, results[i],
                         IF results[i].pattern.id \in failing THEN Err("Storage")
                         ELSE get_metrics(tables, results[i].pattern.id))]))

----------------------------------------------------------------------------
(* schema.rs: PerformanceMetrics *)

MaxCalls == 3    \* the most record_recommendation calls on one object

RECURSIVE Factorial(_)
Factorial(n) == IF n <= 1 THEN 1 ELSE n * Factorial(n - 1)

\* avg_relevance_score is counted in units of 1 / (One * Fine): fine enough for
\* the division by each usage_count up to MaxCalls to leave no remainder.
Fine == Factorial(MaxCalls)

\* `score as f32` in the unit of avg_relevance_score
relevance(score) == score * Fine

\* Variant: the old average is weighted by the new count.
record_recommendation_new_count(self, score, feedback, now) ==
    LET usage_count == self.usage_count + 1
        total_score == self.avg_relevance_score * usage_count + relevance(score)
    IN [self EXCEPT
            !.usage_count = usage_count,
            !.last_recommended = now,
            !.avg_relevance_score = Div(total_score, usage_count),
            !.feedback_scores = IF feedback # None THEN Append(@, feedback[1]) ELSE @]

\* PerformanceMetrics::record_recommendation
record_recommendation(self, score, feedback, now) ==
    LET usage_count == self.usage_count + 1
        total_score == self.avg_relevance_score * (usage_count - 1) + relevance(score)
    IN [self EXCEPT
            !.usage_count = usage_count,
            !.last_recommended = now,
            !.avg_relevance_score = Div(total_score, usage_count),
            !.feedback_scores = IF feedback # None THEN Append(@, feedback[1]) ELSE @]

RECURSIVE Sum(_)
\* iter().sum()
Sum(s) == IF s = <<>> THEN 0 ELSE s[1] + Sum(Tail(s))

\* f32 division that rounds toward zero, in thousandths
Quotient(a, b) == IF a < 0 THEN 0 - (((0 - a) * One) \div b) ELSE (a * One) \div b

\* PerformanceMetrics::avg_feedback, in thousandths
avg_feedback(self) ==
    IF self.feedback_scores = <<>> THEN 0
    ELSE Quotient(Sum(self.feedback_scores), Len(self.feedback_scores))

----------------------------------------------------------------------------
(* pattern_extractor.rs *)

(***************************************************************************)
(* A commit is [sha, time, parent_count, message, file_paths]: message is  *)
(* the list of its lines, file_paths the paths its diff against the first  *)
(* parent names (at most one in the model, so that the order in which the  *)
(* HashSet of extract_file_paths is drained has one outcome).              *)
(***************************************************************************)
git2_Commit(sha, time, parent_count, message, file_paths) ==
    [sha |-> sha, time |-> time, parent_count |-> parent_count, message |-> message,
     file_paths |-> file_paths]

automated_patterns ==
    {"Merge pull request", "Merge branch", "Auto-generated", "Automated commit",
     "Version bump", "[skip ci]", "[ci skip]"}

\* str::contains for the message lines of the model (case-sensitive)
line_contains(line, p) ==
    \/ line = "Merge pull request #123" /\ p = "Merge pull request"
    \/ line = "Merge branch 'main' into fix" /\ p = "Merge branch"

\* message.contains(p): no marker holds a line break, so a match lies within a line
contains(message, p) == \E i \in 1..Len(message) : line_contains(message[i], p)

\* PatternExtractor::is_automated_commit
is_automated_commit(message) == \E p \in automated_patterns : contains(message, p)

\* message.lines().next().unwrap_or("")
first_line(message) == IF message = <<>> THEN "" ELSE message[1]

\* PatternExtractor::parse_commit_message: conventional_commit_re on the first line
parse_commit_message(message) ==
    LET line == first_line(message)
    IN IF line = "feat(auth): add JWT validation"
       THEN [commit_type |-> "feat", description |-> "add JWT validation"]
       ELSE IF line = "fix: resolve memory leak"
       THEN [commit_type |-> "fix", description |-> "resolve memory leak"]
       ELSE [commit_type |-> "chore", description |-> line]

\* PatternExtractor::extract_file_paths
extract_file_paths(commit) == commit.file_paths

RECURSIVE extract_language_tags(_)
\* PatternExtractor::extract_language_tags, for the paths of the model
extract_language_tags(file_paths) ==
    IF file_paths = <<>> THEN <<>>
    ELSE (IF Head(file_paths) = "src/main.rs" THEN <<"rust">> ELSE <<>>)
         \o extract_language_tags(Tail(file_paths))

\* Pattern::generate_id: the SHA-256 of the two strings, taken to be injective
generate_id(commit_sha, description) == <<commit_sha, description>>

\* PatternExtractor::extract_from_commit
extract_from_commit(commit) ==
    IF is_automated_commit(commit.message) THEN None
    ELSE LET parsed == parse_commit_message(commit.message)
             file_paths == extract_file_paths(commit)
         IN IF file_paths = <<>> THEN None
            ELSE Some([id |-> generate_id(commit.sha, parsed.description),
                       description |-> parsed.description,
                       file_paths |-> file_paths,
                       commit_sha |-> commit.sha,
                       timestamp |-> commit.time,
                       tags |-> <<parsed.commit_type>> \o extract_language_tags(file_paths)])

RECURSIVE extract_recent_loop(_, _, _)
\* the loop of extract_recent
extract_recent_loop(revwalk, count, patterns) ==
    IF revwalk = <<>> \/ Len(patterns) >= count THEN patterns
    ELSE IF Head(revwalk).parent_count > 1
    THEN extract_recent_loop(Tail(revwalk), count, patterns)
    ELSE extract_recent_loop(Tail(revwalk), count,
                             patterns \o extract_from_commit(Head(revwalk)))

RECURSIVE extract_by_date_loop(_, _, _, _)
\* the loop of extract_by_date
extract_by_date_loop(revwalk, since, until, patterns) ==
    IF revwalk = <<>> THEN patterns
    ELSE LET commit == Head(revwalk)
         IN IF commit.time < since THEN patterns
            ELSE IF commit.time > until \/ commit.parent_count > 1
            THEN extract_by_date_loop(Tail(revwalk), since, until, patterns)
            ELSE extract_by_date_loop(Tail(revwalk), since, until,
                                      patterns \o extract_from_commit(commit))

----------------------------------------------------------------------------
(* vibepro-observe/src/lib.rs, built with the `otlp` feature *)

MaxThreads == 2      \* the threads that call init_tracing
MaxInitCalls == 2    \* the most init_tracing calls of one thread

Threads == 1..MaxThreads

\* A thread outside init_tracing; ret is what its last call returned.
IdleThread == [pc |-> "idle", calls |-> 0, tracer |-> None, ret |-> None]

\* The process before the first call: both OnceCells empty, no global tracer
\* provider, no global subscriber. providers counts the providers built so far
\* (a provider is named by its number), installs the set_tracer_provider calls,
\* shut holds the provider that shutdown_tracing shut down and the global one then.
ObserveInit ==
    [INIT_GUARD |-> None, OTLP_TRACER_PROVIDER |-> None, global_tracer_provider |-> None,
     subscriber |-> None, providers |-> 0, installs |-> 0, shut |-> None,
     threads |-> [t \in Threads |-> IdleThread]]

\* OnceCell::set: the value is stored only if the cell is empty
OnceCell_set(cell, value) == IF cell = None THEN Some(value) ELSE cell

\* SubscriberInitExt::try_init: Err, and no change, if a global subscriber is set
try_init(subscriber, layers) == IF subscriber = None THEN Some(layers) ELSE subscriber

----------------------------------------------------------------------------
(* similarity.rs: the two dot products, over slices given element by element *)

\* the number of f32 lanes of a 256-bit register
Lanes == 8

\* slice::chunks_exact(size): the full chunks, in order
chunks_exact(v, size) ==
    [c \in 1..(Len(v) \div size) |-> SubSeq(v, (c - 1) * size + 1, c * size)]

\* Variant: the elements after the last full chunk are left out.
remainder_empty(v, size) == <<>>

\* ChunksExact::remainder: the elements after the last full chunk
remainder(v, size) == SubSeq(v, (Len(v) \div size) * size + 1, Len(v))

\* Iterator::zip: pairs up to the end of the shorter sequence
zip(x, y) == [i \in 1..(IF Len(x) <= Len(y) THEN Len(x) ELSE Len(y)) |-> <<x[i], y[i]>>]

\* .map(|(x, y)| x * y)
products(pairs) == [i \in 1..Len(pairs) |-> pairs[i][1] * pairs[i][2]]

mm256_setzero_ps == [lane \in 1..Lanes |-> 0]

mm256_mul_ps(va, vb) == [lane \in 1..Lanes |-> va[lane] * vb[lane]]

mm256_add_ps(va, vb) == [lane \in 1..Lanes |-> va[lane] + vb[lane]]

RECURSIVE avx_loop(_, _)
\* the loop of dot_product_avx over the zipped chunks
avx_loop(chunks, sum) ==
    IF chunks = <<>> THEN sum
    ELSE avx_loop(Tail(chunks),
                  mm256_add_ps(sum, mm256_mul_ps(Head(chunks)[1], Head(chunks)[2])))

\* dot_product_avx
dot_product_avx(a, b) ==
    Sum(avx_loop(zip(chunks_exact(a, Lanes), chunks_exact(b, Lanes)), mm256_setzero_ps))
    + Sum(products(zip(remainder(a, Lanes), remainder(b, Lanes))))

\* dot_product_fallback
dot_product_fallback(a, b) == Sum(products(zip(a, b)))

----------------------------------------------------------------------------
(* The store as a state machine *)

\* The records of a batch: every pattern, with a valid vector or one too short.
Records == [pattern : Patterns, embedding : {Vec(EMBEDDING_DIM, 1), Vec(EMBEDDING_DIM - 1, 1)}]

InsertFaults(pattern) == {None} \cup {Some(k) : k \in 0..NumWrites(pattern)}

RecordFaults(pattern) == {None} \cup {Some(k) : k \in 0..(NumWrites(pattern) - 1)}

NoHistory == [id \in PatternIds |-> None]

\* No insert_batch call is running.
IdleBatch == [pc |-> "idle", txn |-> None, n |-> 0, bad |-> FALSE,
              pre |-> None, hist |-> None, names |-> {}]

\* No get_embedding_and_pattern call is running.
IdleReader == [pc |-> "idle", id |-> 1, snapshot |-> [embeddings |-> None, metadata |-> None],
               embedding_bytes |-> None, expect |-> None, ret |-> Ok(None)]

\* The client is in none of its calls.
IdleCall == [op |-> "idle", args |-> None, locals |-> None, ret |-> None]

Names(pattern) == SeqToSet(pattern.tags) \cup SeqToSet(pattern.file_paths)

\* The last write call: its operation, how it ended, whether a vector it was given
\* had the wrong length, and how many records it had processed when it ended.
Result(op, outcome, bad, done) == [op |-> op, outcome |-> outcome, bad |-> bad, done |-> done]

Init ==
    /\ db = EmptyTables
    /\ result = Result("open", "ok", FALSE, 0)
    /\ inserted = NoHistory
    /\ named = {}
    /\ batch = IdleBatch
    /\ reader = IdleReader
    /\ call = IdleCall
    /\ perf = PerformanceMetrics_new
    /\ recorded = <<>>
    /\ repo = <<>>
    /\ observe = ObserveInit

\* No write transaction is open (redb admits one writer at a time).
Idle == batch.pc = "idle"

\* One insert call: db, result and the history.
InsertCall(pattern, embedding) ==
    \E o \in {insert_outcome(db, pattern, embedding, Now, fault) :
                 fault \in InsertFaults(pattern)} :
        /\ db' = o.db
        /\ result' = Result("insert", o.outcome, embedding.len # EMBEDDING_DIM, 0)
        /\ inserted' = IF o.outcome = "ok"
                       THEN [inserted EXCEPT ![pattern.id] =
                                 Some([pattern |-> pattern, embedding |-> embedding])]
                       ELSE inserted
        /\ named' = IF o.outcome = "ok" THEN named \cup Names(pattern) ELSE named

insert(pattern, embedding) ==
    /\ Idle
    /\ InsertCall(pattern, embedding)
    /\ UNCHANGED <<batch, reader, call, others>>

\* insert_batch, up to the loop: begin_write and the five open_table calls.
insert_batch_begin ==
    /\ Idle
    /\ \E fault \in BOOLEAN :
        IF fault
        THEN /\ result' = Result("insert_batch", "err", FALSE, 0)
             /\ db' = Abort(db, db)
             /\ UNCHANGED batch
        ELSE /\ result' = Result("insert_batch", "running", FALSE, 0)
             /\ batch' = [pc |-> "loop", txn |-> db, n |-> 0, bad |-> FALSE,
                          pre |-> db, hist |-> inserted, names |-> named]
             /\ UNCHANGED db
    /\ UNCHANGED <<inserted, named, reader, call, others>>

\* insert_batch, one pass of the loop: the next record of the list is `record`.
insert_batch_loop(record) ==
    /\ batch.pc = "loop"
    /\ batch.n < MaxBatch
    /\ \E o \in {insert_batch_record(batch.txn, record, Now, fault) :
                    fault \in RecordFaults(record.pattern)} :
        LET bad == batch.bad \/ record.embedding.len # EMBEDDING_DIM
        IN IF o.outcome = "next"
           THEN /\ batch' = [batch EXCEPT
                                !.txn = o.txn, !.n = @ + 1, !.bad = bad,
                                !.hist[record.pattern.id] =
                                    Some([pattern |-> record.pattern,
                                          embedding |-> record.embedding]),
                                !.names = @ \cup Names(record.pattern)]
                /\ db' = AfterRecord(db, o.txn)
                /\ UNCHANGED result
           ELSE /\ batch' = IdleBatch
                /\ db' = Abort(db, o.txn)
                /\ result' = Result("insert_batch", o.outcome, bad, batch.n)
    /\ UNCHANGED <<inserted, named, reader, call, others>>

\* insert_batch, after the loop: commit.
insert_batch_commit ==
    /\ batch.pc = "loop"
    /\ \E fault \in BOOLEAN :
        IF fault
        THEN /\ db' = Abort(db, batch.txn)
             /\ result' = Result("insert_batch", "err", batch.bad, batch.n)
             /\ UNCHANGED <<inserted, named>>
        ELSE /\ db' = Commit(db, batch.txn)
             /\ result' = Result("insert_batch", "ok", batch.bad, batch.n)
             /\ inserted' = batch.hist
             /\ named' = batch.names
    /\ batch' = IdleBatch
    /\ UNCHANGED <<reader, call, others>>

update_metrics(pattern_id, metrics) ==
    /\ Idle
    /\ \E o \in {update_metrics_outcome(db, pattern_id, metrics, fault) :
                    fault \in {None, Some(0), Some(1)}} :
        /\ db' = o.db
        /\ result' = Result("update_metrics", o.outcome, FALSE, 0)
    /\ UNCHANGED <<inserted, named, batch, reader, call, others>>

\* VectorStore::open on the file of the store (the handle before it was dropped).
open ==
    /\ Idle
    /\ \E o \in {open_outcome(db, fault) :
                    fault \in {None} \cup {Some(k) : k \in 0..Len(TableNames)}} :
        /\ db' = o.db
        /\ result' = Result("open", o.outcome, FALSE, 0)
    /\ UNCHANGED <<inserted, named, batch, reader, call, others>>

\* Variant: each table read in a read transaction of its own (get_embedding, then
\* get_pattern).
LatestGet(snapshot_entry, committed_entry) == committed_entry

\* What a table opened in a read transaction returns for a key: the value committed
\* when begin_read ran, whatever was committed since.
SnapshotGet(snapshot_entry, committed_entry) == snapshot_entry

\* get_embedding_and_pattern: begin_read and the two open_table calls.
read_begin(pattern_id) ==
    /\ reader.pc = "idle"
    /\ reader' = [reader EXCEPT
                      !.pc = "embeddings", !.id = pattern_id,
                      !.snapshot = [embeddings |-> db.embeddings[pattern_id],
                                    metadata |-> db.metadata[pattern_id]],
                      !.expect = inserted[pattern_id]]
    /\ UNCHANGED <<db, result, inserted, named, batch, call, others>>

\* get_embedding_and_pattern: embeddings.get(pattern_id)
read_embeddings ==
    /\ reader.pc = "embeddings"
    /\ LET bytes == SnapshotGet(reader.snapshot.embeddings, db.embeddings[reader.id])
       IN reader' = IF bytes = None
                    THEN [reader EXCEPT !.pc = "done", !.ret = Ok(None)]
                    ELSE [reader EXCEPT !.pc = "metadata", !.embedding_bytes = bytes]
    /\ UNCHANGED <<db, result, inserted, named, batch, call, others>>

\* get_embedding_and_pattern: metadata.get(pattern_id), the decoding and the return value
read_metadata ==
    /\ reader.pc = "metadata"
    /\ LET json == SnapshotGet(reader.snapshot.metadata, db.metadata[reader.id])
       IN reader' = [reader EXCEPT
                         !.pc = "done",
                         !.ret = embedding_and_pattern(reader.embedding_bytes, json)]
    /\ UNCHANGED <<db, result, inserted, named, batch, call, others>>

\* The caller takes the value; the read transaction is dropped.
read_return ==
    /\ reader.pc = "done"
    /\ reader' = IdleReader
    /\ UNCHANGED <<db, result, inserted, named, batch, call, others>>

Insert == \E pattern \in Patterns, embedding \in Vectors : insert(pattern, embedding)

InsertBatchLoop == \E record \in Records : insert_batch_loop(record)

UpdateMetrics ==
    \E pattern_id \in PatternIds, metrics \in MetricsInputs :
        update_metrics(pattern_id, metrics)

\* insert and insert_batch
Next == Insert \/ insert_batch_begin \/ InsertBatchLoop \/ insert_batch_commit

Spec == Init /\ [][Next]_vars

\* insert, insert_batch and update_metrics
NextMetrics == Next \/ UpdateMetrics

SpecMetrics == Init /\ [][NextMetrics]_vars

\* A writer that inserts and re-inserts valid records.
Reinsert ==
    \E pattern \in Patterns, embedding \in {v \in Vectors : v.len = EMBEDDING_DIM} :
        insert(pattern, embedding)

\* a store that is filled by insert, and opened again
NextOpen == Reinsert \/ open

SpecOpen == Init /\ [][NextOpen]_vars

----------------------------------------------------------------------------
(* The client of the search: it fills the store, searches it and takes the results *)

MaxK == 2    \* the largest k given to search_filtered

\* A day later than the timestamp of the test pattern.
Later == 1234567890 + 86400

\* The records of the searched store: the patterns differ in their tags, file paths
\* and timestamps, the vectors in their direction.
SearchRecords ==
    UNION {{[pattern |-> Pattern(id, <<"src/main.rs">>, <<"rust", "test">>),
             embedding |-> Vec(EMBEDDING_DIM, 1)],
            [pattern |-> Pattern(id, <<"src/lib.rs", "src/lib.rs">>, <<"test", "test">>),
             embedding |-> Vec(EMBEDDING_DIM, -1)],
            [pattern |-> [Pattern(id, <<"src/lib.rs">>, <<"rust">>) EXCEPT !.timestamp = Later],
             embedding |-> Vec(EMBEDDING_DIM, 0)]} : id \in PatternIds}

\* Query vectors: one of the right length and one that is too short.
Queries == {Vec(EMBEDDING_DIM, 1), Vec(EMBEDDING_DIM - 1, 1)}

FilterInputs ==
    {SearchFilters_default,
     SearchFilters(Some(0), None, <<>>, None),
     SearchFilters(Some(One), None, <<>>, Some(Later)),
     SearchFilters(None, None, <<>>, Some(Later)),
     SearchFilters(None, None, <<"rust">>, None),
     SearchFilters(None, None, <<"rust", "test">>, None),
     SearchFilters(Some(0), None, <<"test", "test">>, None),
     SearchFilters(None, Some("src/*.rs"), <<>>, None),
     SearchFilters(Some(0), Some("src/lib.rs"), <<>>, None),
     SearchFilters(None, Some("src/["), <<>>, None),
     SearchFilters(None, Some("src/["), <<"rust">>, None),
     SearchFilters(None, Some("src/lib.rs"), <<"test">>, Some(Later))}

\* The client inserts a record between two calls.
client_insert(record) ==
    /\ call.op = "idle"
    /\ Idle
    /\ InsertCall(record.pattern, record.embedding)
    /\ UNCHANGED <<batch, reader, call, others>>

search_filtered(query_embedding, k, filters) ==
    /\ call.op = "idle"
    /\ Idle
    /\ LET o == search_filtered_outcome(db, query_embedding, k, filters)
       IN call' = [op |-> "search_filtered",
                   args |-> [query_embedding |-> query_embedding, k |-> k,
                             filters |-> filters],
                   locals |-> o.pattern_ids,
                   ret |-> o.ret]
    /\ UNCHANGED <<db, result, inserted, named, batch, reader, others>>

\* The client takes the returned value.
call_return ==
    /\ call.op # "idle"
    /\ call' = IdleCall
    /\ UNCHANGED <<db, result, inserted, named, batch, reader, others>>

ClientInsert == \E record \in SearchRecords : client_insert(record)

SearchFiltered ==
    \E query_embedding \in Queries, k \in 0..MaxK, filters \in FilterInputs :
        search_filtered(query_embedding, k, filters)

NextSearch == ClientInsert \/ SearchFiltered \/ call_return

SpecSearch == Init /\ [][NextSearch]_vars

----------------------------------------------------------------------------
(* The client of the ranker: it updates metrics, builds rankers and ranks results *)

MaxResults == 2    \* the longest results list given to rank

\* Weights given to with_weights.
WeightInputs == {-1, 0, 1, 3}

\* Metrics given to update_metrics: usage_count below and above 100, with and without
\* a success rate.
RankMetricsInputs ==
    {PerformanceMetrics_new,
     [PerformanceMetrics_new EXCEPT !.usage_count = 50, !.success_rate = Some(900)],
     [PerformanceMetrics_new EXCEPT !.usage_count = 250]}

\* Rankers that rank is called on.
RankerInputs == {RecommendationRanker_new, with_weights(1, 0, 3, 0)}

\* Results given to rank: an old pattern that matches the query, for every id; a
\* pattern with a timestamp in the future; and one, a hundred days old, that points
\* away from the query.
ResultInputs ==
    {SimilarityResult(id, One, Pattern(id, <<"src/main.rs">>, <<"rust">>)) :
        id \in PatternIds}
    \cup {SimilarityResult(1, 500, [Pattern(1, <<"src/main.rs">>, <<"rust">>)
                                       EXCEPT !.timestamp = Now + 86400]),
           SimilarityResult(1, 0 - One, [Pattern(1, <<"src/main.rs">>, <<"rust">>)
                                           EXCEPT !.timestamp = Now - 100 * 86400])}

ResultLists == UNION {[1..n -> ResultInputs] : n \in 0..MaxResults}

client_update_metrics(pattern_id, metrics) ==
    /\ call.op = "idle"
    /\ update_metrics(pattern_id, metrics)

\* RecommendationRanker::new
call_new ==
    /\ call.op = "idle"
    /\ call' = [op |-> "new", args |-> None, locals |-> None,
                ret |-> RecommendationRanker_new]
    /\ UNCHANGED <<db, result, inserted, named, batch, reader, others>>

\* RecommendationRanker::with_weights
call_with_weights(recency, usage, similarity, success_rate) ==
    /\ call.op = "idle"
    /\ call' = [op |-> "with_weights",
                args |-> [recency |-> recency, usage |-> usage,
                          similarity |-> similarity, success_rate |-> success_rate],
                locals |-> None,
                ret |-> with_weights(recency, usage, similarity, success_rate)]
    /\ UNCHANGED <<db, result, inserted, named, batch, reader, others>>

\* RecommendationRanker::rank
rank(self, results, failing) ==
    /\ call.op = "idle"
    /\ Idle
    /\ call' = [op |-> "rank",
                args |-> [self |-> self, results |-> results, failing |-> failing],
                locals |-> None,
                ret |-> rank_outcome(self, db, Now, results, failing)]
    /\ UNCHANGED <<db, result, inserted, named, batch, reader, others>>

ClientUpdateMetrics ==
    \E pattern_id \in PatternIds, metrics \in RankMetricsInputs :
        client_update_metrics(pattern_id, metrics)

CallWithWeights ==
    \E recency \in WeightInputs, usage \in WeightInputs, similarity \in WeightInputs,
       success_rate \in WeightInputs :
        call_with_weights(recency, usage, similarity, success_rate)

Rank ==
    \E self \in RankerInputs, results \in ResultLists, failing \in {{}, {1}} :
        rank(self, results, failing)

NextRank == ClientUpdateMetrics \/ call_new \/ CallWithWeights \/ Rank \/ call_return

SpecRank == Init /\ [][NextRank]_vars

ReadBegin == \E pattern_id \in PatternIds : read_begin(pattern_id)

\* one writer calling insert, one reader calling get_embedding_and_pattern
NextReaders == Reinsert \/ ReadBegin \/ read_embeddings \/ read_metadata \/ read_return

SpecReaders == Init /\ [][NextReaders]_vars

----------------------------------------------------------------------------
(* Properties *)

StrictlyAscending(ids) == \A i \in 1..(Len(ids) - 1) : ids[i] < ids[i + 1]

\* Every write of insert(pattern, embedding) is visible in `tables`.
AllWritesPresent(tables, pattern, embedding) ==
    /\ get_embedding(tables, pattern.id) = Ok(Some(embedding))
    /\ get_pattern(tables, pattern.id) = Ok(Some(pattern))
    /\ get_metrics(tables, pattern.id) = Ok(Some(PerformanceMetrics_new))
    /\ \A i \in 1..Len(pattern.tags) :
           pattern.id \in SeqToSet(find_by_tag(tables, pattern.tags[i]).value)
    /\ \A i \in 1..Len(pattern.file_paths) :
           pattern.id \in SeqToSet(find_by_file_path(tables, pattern.file_paths[i]).value)

\* C1: insert is atomic across the five tables. An insert call either succeeds, and then
\* the committed tables hold, for the inserted pattern as for every id inserted before,
\* the embedding, the metadata, zeroed metrics and the id in every tag and file-path
\* index entry its pattern names; or it fails, and then the committed tables are
\* exactly the tables before the call.
InsertIsAtomic ==
    [][result'.op = "insert" =>
           IF result'.outcome = "ok"
           THEN \A id \in PatternIds :
                    inserted'[id] # None =>
                        AllWritesPresent(db', inserted'[id][1].pattern,
                                         inserted'[id][1].embedding)
           ELSE db' = db]_vars

\* An insert failed on a store that holds patterns.
InsertFailedOnFilledStore ==
    /\ result.op = "insert"
    /\ result.outcome = "err"
    /\ inserted[1] # None
    /\ inserted[2] # None

\* C2: insert_batch is all-or-nothing. While an insert_batch call runs, and when it
\* ends with an error or a panic (a wrong-length vector at any position), the
\* committed tables equal the tables before the call: no record of the batch is
\* visible, the ones before the failing record included.
BatchIsAllOrNothing ==
    [][/\ (batch.pc = "loop" /\ ~(result'.op = "insert_batch" /\ result'.outcome = "ok"))
           => db' = batch.pre
       /\ (batch.pc = "idle" /\ result'.op = "insert_batch" /\ result'.outcome # "ok")
           => db' = db]_vars

\* An insert_batch call failed on a wrong-length vector after it had processed a record.
BatchFailedAfterARecord ==
    /\ result.op = "insert_batch"
    /\ result.outcome = "panic"
    /\ result.done >= 1

\* C3: the dimension guard. A call given a vector whose length is not EMBEDDING_DIM does
\* not succeed and leaves the committed tables as they were before the call, and every
\* stored embedding has length EMBEDDING_DIM and is the vector that was inserted.
DimensionGuard ==
    [][/\ result'.bad =>
              /\ result'.outcome # "ok"
              /\ db' = IF batch.pc = "loop" THEN batch.pre ELSE db
       /\ \A id \in PatternIds :
              db'.embeddings[id] # None =>
                  /\ from_slice(db'.embeddings[id][1]).vector.len = EMBEDDING_DIM
                  /\ inserted'[id] # None
                  /\ from_slice(db'.embeddings[id][1]).vector = inserted'[id][1].embedding]_vars

\* An insert with a wrong-length vector was refused on a store that holds an embedding.
WrongLengthRefused ==
    /\ result.op = "insert"
    /\ result.bad
    /\ result.outcome # "ok"
    /\ \E id \in PatternIds : db.embeddings[id] # None

\* C4: a dimension mismatch is returned to the caller as an Err value; the call does
\* not panic.
DimensionMismatchIsErr == result.bad => result.outcome = "err"

\* C5: the embeddings, metadata and metrics tables have the same keys.
KeySetsIdentical ==
    \A id \in PatternIds :
        /\ (db.embeddings[id] # None) <=> (db.metadata[id] # None)
        /\ (db.metadata[id] # None) <=> (db.metrics[id] # None)

usage_count(tables, id) == get_metrics(tables, id).value[1].usage_count

\* C6: the usage_count that get_metrics returns for an id never goes down, and an
\* entry that get_metrics returned does not disappear.
UsageCountNeverDecremented ==
    [][\A id \in PatternIds :
           get_metrics(db, id).value # None =>
               /\ get_metrics(db', id).value # None
               /\ usage_count(db', id) >= usage_count(db, id)]_vars

\* C7: every tag-index and file-path-index entry is a strictly ascending list of ids.
IndexEntriesStrictlyAscending ==
    /\ \A tag \in Tags : StrictlyAscending(find_by_tag(db, tag).value)
    /\ \A file_path \in FilePaths : StrictlyAscending(find_by_file_path(db, file_path).value)

\* Both ids are in one index entry, and id 1 went in last, with a pattern that names
\* the tag twice.
TwoIdsInOneEntry ==
    /\ find_by_tag(db, "test").value = <<1, 2>>
    /\ find_by_file_path(db, "src/lib.rs").value = <<1, 2>>
    /\ inserted[1] # None
    /\ inserted[1][1].pattern.tags = <<"test", "test">>
    /\ find_by_tag(db, "rust").value = <<2>>

\* C8: round trip. For every id, the lookups return the vector and the pattern of the
\* latest committed insert of that id.
RoundTrip ==
    \A id \in PatternIds :
        inserted[id] # None =>
            /\ get_embedding(db, id) = Ok(Some(inserted[id][1].embedding))
            /\ get_pattern(db, id) = Ok(Some(inserted[id][1].pattern))
            /\ get_embedding_and_pattern(db, id) =
                   Ok(Some(<<inserted[id][1].embedding, inserted[id][1].pattern>>))

\* Id 1 was inserted at least twice: its latest pattern does not name the tag "rust",
\* under which an earlier insert indexed it.
Reinserted ==
    /\ inserted[1] # None
    /\ inserted[1][1].embedding.fill = 2
    /\ inserted[1][1].pattern.tags = <<"test", "test">>
    /\ 1 \in SeqToSet(find_by_tag(db, "rust").value)

\* C9: get_embedding_and_pattern returns the embedding and the pattern of one committed
\* insert, the latest one committed when its read transaction began, or None when the
\* id had not been committed then, whatever the writer commits during the call.
ReadIsOneVersion ==
    reader.pc = "done" =>
        reader.ret = IF reader.expect = None
                     THEN Ok(None)
                     ELSE Ok(Some(<<reader.expect[1].embedding, reader.expect[1].pattern>>))

\* The writer re-inserted the id, with another vector and another pattern, while the
\* call was running.
ReadRacedWithReinsert ==
    /\ reader.pc = "done"
    /\ reader.expect # None
    /\ inserted[reader.id][1].embedding # reader.expect[1].embedding
    /\ inserted[reader.id][1].pattern # reader.expect[1].pattern

\* C10: the point lookups return Ok(None) for an id that was never inserted, and the index
\* lookups return Ok(empty list) for a key that no inserted pattern names.
AbsentLookupsReturnNone ==
    /\ \A id \in PatternIds :
           inserted[id] = None =>
               /\ get_embedding(db, id) = Ok(None)
               /\ get_pattern(db, id) = Ok(None)
               /\ get_metrics(db, id) = Ok(None)
               /\ get_embedding_and_pattern(db, id) = Ok(None)
    /\ \A tag \in Tags \ named : find_by_tag(db, tag) = Ok(<<>>)
    /\ \A file_path \in FilePaths \ named : find_by_file_path(db, file_path) = Ok(<<>>)

\* C11: open keeps the data of an existing store. Every open call, failed or not,
\* leaves the five committed tables as they were, so each lookup returns after the
\* call what it returned before.
OpenKeepsData ==
    [][result'.op = "open" =>
           /\ db' = db
           /\ \A id \in PatternIds :
                  /\ get_embedding(db', id) = get_embedding(db, id)
                  /\ get_pattern(db', id) = get_pattern(db, id)
                  /\ get_metrics(db', id) = get_metrics(db, id)
           /\ \A tag \in Tags : find_by_tag(db', tag) = find_by_tag(db, tag)
           /\ \A file_path \in FilePaths :
                  find_by_file_path(db', file_path) = find_by_file_path(db, file_path)]_vars

\* a store holding a pattern, with its metrics and index entries, was opened again
ReopenedFilledStore ==
    /\ result.op = "open"
    /\ result.outcome = "ok"
    /\ \E id \in PatternIds :
           /\ db.embeddings[id] # None
           /\ db.metadata[id] # None
           /\ db.metrics[id] # None
    /\ \E tag \in Tags : db.tag_index[tag] # None
    /\ \E file_path \in FilePaths : db.file_path_index[file_path] # None

\* The call in progress is a search_filtered call that returned results.
SearchReturned == call.op = "search_filtered" /\ call.ret.tag = "Ok"

\* The candidates that survive the filters of the call, by brute force: the candidate
\* ids that have an embedding and a pattern, whose pattern is not older than
\* since_timestamp and whose score is not below min_score.
Surviving ==
    {id \in SeqToSet(call.locals[1]) :
        /\ db.embeddings[id] # None
        /\ db.metadata[id] # None
        /\ \/ call.args.filters.since_timestamp = None
           \/ inserted[id][1].pattern.timestamp >= call.args.filters.since_timestamp[1]
        /\ \/ call.args.filters.min_score = None
           \/ cosine_similarity(call.args.query_embedding, inserted[id][1].embedding)
                  >= call.args.filters.min_score[1]}

ScoreOf(id) == cosine_similarity(call.args.query_embedding, inserted[id][1].embedding)

\* C12: top-k correctness. search_filtered returns exactly min(k, number of surviving
\* candidates) results, each a surviving candidate with its score and no candidate
\* twice, in non-increasing score order, and no surviving candidate that was left out
\* scores more than the last result.
TopK ==
    SearchReturned =>
        LET results == call.ret.value
            returned == {results[i].pattern_id : i \in 1..Len(results)}
        IN /\ Len(results) = IF call.args.k < Cardinality(Surviving)
                              THEN call.args.k ELSE Cardinality(Surviving)
           /\ Cardinality(returned) = Len(results)
           /\ returned \subseteq Surviving
           /\ \A i \in 1..Len(results) : results[i].score = ScoreOf(results[i].pattern_id)
           /\ \A i \in 1..(Len(results) - 1) : results[i].score >= results[i + 1].score
           /\ \A id \in Surviving \ returned :
                  \A i \in 1..Len(results) : ScoreOf(id) <= results[i].score

\* a search left out a surviving candidate that scores less than a returned one
TopKEvicted ==
    /\ SearchReturned
    /\ call.args.k > 0
    /\ \E id \in Surviving :
           /\ \A i \in 1..Len(call.ret.value) : call.ret.value[i].pattern_id # id
           /\ \E i \in 1..Len(call.ret.value) : ScoreOf(id) < call.ret.value[i].score

\* C13: with a non-empty filters.tags, every returned pattern carries all of the
\* tags of filters.tags.
ResultsCarryAllTags ==
    (SearchReturned /\ call.args.filters.tags # <<>>) =>
        \A i \in 1..Len(call.ret.value) :
            SeqToSet(call.args.filters.tags) \subseteq SeqToSet(call.ret.value[i].pattern.tags)

\* The ids of the stored patterns.
StoredIds == {id \in PatternIds : db.metadata[id] # None}

FilterSoundness ==
    SearchReturned =>
        LET results == call.ret.value
            filters == call.args.filters
        IN /\ \A i \in 1..Len(results) :
                  /\ filters.min_score # None => results[i].score >= filters.min_score[1]
                  /\ filters.since_timestamp # None =>
                         results[i].pattern.timestamp >= filters.since_timestamp[1]
           /\ Len(results) < call.args.k =>
                  Surviving \subseteq {results[i].pattern_id : i \in 1..Len(results)}

\* a search returned a result that scores exactly min_score and left out a candidate
\* below it
MinScoreApplied ==
    /\ SearchReturned
    /\ call.args.filters.min_score # None
    /\ \E i \in 1..Len(call.ret.value) :
           call.ret.value[i].score = call.args.filters.min_score[1]
    /\ \E id \in SeqToSet(call.locals[1]) :
           /\ inserted[id] # None
           /\ ScoreOf(id) < call.args.filters.min_score[1]

\* C16: a search_filtered call whose file_path_glob is not a valid glob returns an
\* error, whatever the other filters are.
MalformedGlobIsErr ==
    (/\ call.op = "search_filtered"
     /\ call.args.filters.file_path_glob # None
     /\ glob_Pattern_new(call.args.filters.file_path_glob[1]).tag = "Err")
        => call.ret.tag = "Err"

\* a component score or a weight sum x lies in [0, unit]
InUnit(x, unit) == 0 <= x /\ x <= unit

\* C17: score boundedness. Every Recommendation that rank produces has its
\* similarity, recency, usage and final scores within [0, 1].
ScoresBounded ==
    call.op = "rank" =>
        /\ call.ret.tag = "Ok"
        /\ \A i \in 1..Len(call.ret.value) :
               /\ InUnit(call.ret.value[i].similarity_score, One)
               /\ InUnit(call.ret.value[i].recency_score, One)
               /\ InUnit(call.ret.value[i].usage_score, One)
               /\ InUnit(call.ret.value[i].final_score, Nano)

WeightSum(ranker) ==
    ranker.recency_weight + ranker.usage_weight + ranker.similarity_weight
        + ranker.success_rate_weight

\* |a - b| <= tolerance
Within(a, b, tolerance) == a - b <= tolerance /\ b - a <= tolerance

\* C18: weight normalization. For positive inputs the weights that with_weights
\* stores sum to 1.0 within 1e-3 and each is its input divided by the sum of the
\* inputs; for inputs that sum to zero each weight is 0.25; the weights of new sum
\* to 1.0.
WeightsNormalized ==
    /\ call.op = "new" => WeightSum(call.ret) = Micro
    /\ call.op = "with_weights" =>
           LET a == call.args
               total == a.recency + a.usage + a.similarity + a.success_rate
           IN /\ (a.recency > 0 /\ a.usage > 0 /\ a.similarity > 0 /\ a.success_rate > 0) =>
                     /\ Within(WeightSum(call.ret), Micro, 1000)
                     /\ Within(call.ret.recency_weight * total, a.recency * Micro, total)
                     /\ Within(call.ret.usage_weight * total, a.usage * Micro, total)
                     /\ Within(call.ret.similarity_weight * total, a.similarity * Micro, total)
                     /\ Within(call.ret.success_rate_weight * total,
                               a.success_rate * Micro, total)
              /\ total = 0 => call.ret = RecommendationRanker(250000, 250000, 250000, 250000)

\* with_weights was given unequal positive weights
UnequalPositiveWeights ==
    /\ call.op = "with_weights"
    /\ call.args.recency = 1
    /\ call.args.usage = 3
    /\ call.args.similarity > 0
    /\ call.args.success_rate > 0

\* The recommendations of the rank call for the pattern of its i-th result.
ForResult(i) ==
    {j \in 1..Len(call.ret.value) :
        /\ call.ret.value[j].pattern = call.args.results[i].pattern
        /\ call.ret.value[j].similarity_score = call.args.results[i].score}

\* C19: rank never fails because of metrics. It returns Ok; a pattern without a
\* metrics entry, or whose metrics lookup failed, is scored with usage_score 0.0,
\* usage_count 0 and success rate 0.5; a pattern whose metrics have no success_rate
\* has success rate 0.5, and its usage_score is min(usage_count / 100, 1.0).
MissingMetricsAreNeutral ==
    call.op = "rank" =>
        /\ call.ret.tag = "Ok"
        /\ \A i \in 1..Len(call.args.results) :
               LET id == call.args.results[i].pattern.id
                   row == db.metrics[id]
               IN \A j \in ForResult(i) :
                      LET rec == call.ret.value[j]
                      IN IF row = None \/ id \in call.args.failing
                         THEN /\ rec.usage_score = 0
                              /\ rec.explanation.usage_count = 0
                              /\ rec.explanation.success_rate = 500
                         ELSE LET m == metrics_from_str(row[1])
                              IN /\ m.success_rate = None =>
                                        rec.explanation.success_rate = 500
                                 /\ m.success_rate # None =>
                                        rec.explanation.success_rate = m.success_rate[1]
                                 /\ rec.explanation.usage_count = m.usage_count
                                 /\ rec.usage_score =
                                        IF m.usage_count >= 100 THEN One
                                        ELSE (m.usage_count * One) \div 100

\* rank scored a pattern that has no metrics entry and one whose lookup failed while
\* its metrics entry shows more than a hundred uses
RankedWithoutMetrics ==
    /\ call.op = "rank"
    /\ \E i, j \in 1..Len(call.args.results) :
           /\ db.metrics[call.args.results[i].pattern.id] = None
           /\ call.args.results[i].pattern.id \notin call.args.failing
           /\ call.args.results[j].pattern.id \in call.args.failing
           /\ db.metrics[call.args.results[j].pattern.id] # None
           /\ usage_count(db, call.args.results[j].pattern.id) > 100

\* How many elements of the sequence s are x.
Count(s, x) == Cardinality({i \in 1..Len(s) : s[i] = x})

\* C20: rank returns one Recommendation per input result, for the same patterns, each
\* with the score of its result as similarity_score, in non-increasing order of
\* final_score.
RankIsSortedPermutation ==
    call.op = "rank" =>
        LET results == call.args.results
            recommendations == call.ret.value
            given == [i \in 1..Len(results) |-> <<results[i].pattern, results[i].score>>]
            returned == [i \in 1..Len(recommendations) |->
                            <<recommendations[i].pattern,
                              recommendations[i].similarity_score>>]
        IN /\ Len(recommendations) = Len(results)
           /\ \A i \in 1..Len(given) : Count(returned, given[i]) = Count(given, given[i])
           /\ \A i \in 1..(Len(recommendations) - 1) :
                  recommendations[i].final_score >= recommendations[i + 1].final_score

\* rank returned its results in another order than it was given them
RankReordered ==
    /\ call.op = "rank"
    /\ Len(call.ret.value) = 2
    /\ call.ret.value[1].pattern = call.args.results[2].pattern
    /\ call.ret.value[1].final_score > call.ret.value[2].final_score


\* The client's PerformanceMetrics object (schema.rs, test_performance_metrics_update).
ScoreInputs == {600, 800, 1000}

\* Option<i8>: no feedback, the three judgments, and another i8
FeedbackInputs == {None, Some(-1), Some(0), Some(1), Some(5)}

\* metrics.record_recommendation(score, feedback)
client_record_recommendation(score, feedback) ==
    /\ Len(recorded) < MaxCalls
    /\ perf' = record_recommendation(perf, score, feedback, Now)
    /\ recorded' = Append(recorded, [score |-> score, feedback |-> feedback])
    /\ UNCHANGED <<db, result, inserted, named, batch, reader, call, repo, observe>>

RecordRecommendation ==
    \E score \in ScoreInputs, feedback \in FeedbackInputs :
        client_record_recommendation(score, feedback)

NextPerf == RecordRecommendation

SpecPerf == Init /\ [][NextPerf]_vars

\* The scores of the calls so far, and the feedback values that were given.
ScoresGiven == [i \in 1..Len(recorded) |-> recorded[i].score]

RECURSIVE FeedbackGiven(_)
FeedbackGiven(calls) ==
    IF calls = <<>> THEN <<>>
    ELSE FeedbackGiven(SubSeq(calls, 1, Len(calls) - 1))
         \o calls[Len(calls)].feedback

\* C21: after n record_recommendation calls on a new object, usage_count is n,
\* avg_relevance_score is the arithmetic mean of the n scores, and feedback_scores
\* is the list of the feedback values that were given, in call order.
RecordedMetrics ==
    /\ perf.usage_count = Len(recorded)
    /\ perf.avg_relevance_score * Len(recorded) = relevance(Sum(ScoresGiven))
    /\ perf.feedback_scores = FeedbackGiven(recorded)

\* The scenario of test_performance_metrics_update: (0.8, Some(1)), (0.6, Some(-1)).
TwoRecommendations ==
    /\ recorded = << [score |-> 800, feedback |-> Some(1)],
                     [score |-> 600, feedback |-> Some(-1)] >>
    /\ perf.avg_relevance_score = relevance(700)
    /\ avg_feedback(perf) = 0

IsPrefix(s, t) == Len(s) <= Len(t) /\ SubSeq(t, 1, Len(s)) = s

\* C22: feedback_scores is append-only and holds only values in {-1, 0, 1}, so
\* avg_feedback lies in [-1, 1].
FeedbackIsDiscrete ==
    [][/\ IsPrefix(perf.feedback_scores, perf'.feedback_scores)
       /\ \A i \in 1..Len(perf'.feedback_scores) : perf'.feedback_scores[i] \in {-1, 0, 1}
       /\ avg_feedback(perf') \in (0 - One)..One]_vars


----------------------------------------------------------------------------
(* The repository and the client of the pattern extractor *)

MaxCommits == 3    \* the most commits reachable from HEAD

CommitTimes == {10, 20, 30}

\* The messages: a conventional commit, an automated one, one that names a marker
\* in its body only, and one that is no conventional commit.
Messages ==
    {<<"feat(auth): add JWT validation">>,
     <<"Merge pull request #123">>,
     <<"fix: resolve memory leak", "", "Merge branch 'main' into fix">>,
     <<"update readme">>}

\* What is committed: an ordinary commit for each message, a merge commit, and a
\* commit that changes no file.
CommitInputs ==
    {[parent_count |-> 1, message |-> m, file_paths |-> <<"src/main.rs">>] : m \in Messages}
    \cup {[parent_count |-> 2, message |-> <<"feat(auth): add JWT validation">>,
           file_paths |-> <<"src/main.rs">>],
          [parent_count |-> 1, message |-> <<"update readme">>, file_paths |-> <<>>]}

\* git commit: the new commit is HEAD, the first commit of the walk; the first
\* commit of the repository has no parent.
git_commit(c, time) ==
    /\ call.op = "idle"
    /\ Len(repo) < MaxCommits
    /\ repo' = <<git2_Commit(Len(repo) + 1, time,
                             IF repo = <<>> THEN 0 ELSE c.parent_count,
                             c.message, c.file_paths)>> \o repo
    /\ UNCHANGED <<db, result, inserted, named, batch, reader, call, perf, recorded, observe>>

\* PatternExtractor::extract_recent; fault: a git2 call fails.
extract_recent(count, fault) ==
    /\ call.op = "idle"
    /\ call' = [op |-> "extract_recent",
                args |-> [count |-> count],
                locals |-> None,
                ret |-> IF fault THEN Err("GitError")
                        ELSE Ok(extract_recent_loop(repo, count, <<>>))]
    /\ UNCHANGED <<db, result, inserted, named, batch, reader, others>>

\* PatternExtractor::extract_by_date; fault: a git2 call fails.
extract_by_date(since, until, fault) ==
    /\ call.op = "idle"
    /\ call' = [op |-> "extract_by_date",
                args |-> [since |-> since, until |-> until],
                locals |-> None,
                ret |-> IF fault THEN Err("GitError")
                        ELSE Ok(extract_by_date_loop(repo, since, until, <<>>))]
    /\ UNCHANGED <<db, result, inserted, named, batch, reader, others>>

GitCommit == \E c \in CommitInputs, time \in CommitTimes : git_commit(c, time)

ExtractRecent == \E count \in {1, MaxCommits} : extract_recent(count, FALSE)

ExtractByDate ==
    \E range \in {<<15, 25>>, <<5, 35>>}, fault \in BOOLEAN :
        (fault => range = <<15, 25>>) /\ extract_by_date(range[1], range[2], fault)

NextExtract == GitCommit \/ ExtractRecent \/ ExtractByDate \/ call_return

SpecExtract == Init /\ [][NextExtract]_vars

RECURSIVE PatternsOf(_, _, _)
\* The patterns of the commits of the walk that qualify and lie in the range.
PatternsOf(revwalk, since, until) ==
    IF revwalk = <<>> THEN <<>>
    ELSE LET commit == Head(revwalk)
         IN (IF commit.parent_count <= 1 /\ since <= commit.time /\ commit.time <= until
             THEN extract_from_commit(commit) ELSE <<>>)
            \o PatternsOf(Tail(revwalk), since, until)

\* C23: extract_by_date(since, until) returns the patterns of exactly the commits
\* of the walk that qualify and whose time lies in [since, until], in walk order,
\* whatever the order of the commit times along the walk.
ExtractByDateIsComplete ==
    (call.op = "extract_by_date" /\ call.ret.tag = "Ok")
        => call.ret.value = PatternsOf(repo, call.args.since, call.args.until)

\* The first line of the message holds a marker.
FirstLineIsAutomated(message) ==
    \E p \in automated_patterns : line_contains(first_line(message), p)

\* C24: a commit is excluded as automated exactly when the first line of its
\* message holds a marker; a marker in a later line does not exclude it.
AutomatedByFirstLine ==
    (call.op = "extract_recent" /\ call.ret.tag = "Ok" /\ call.args.count >= Len(repo))
        => \A i \in 1..Len(repo) :
              (repo[i].parent_count <= 1 /\ repo[i].file_paths # <<>>)
                  => ((\A j \in 1..Len(call.ret.value) :
                           call.ret.value[j].commit_sha # repo[i].sha)
                      <=> FirstLineIsAutomated(repo[i].message))


----------------------------------------------------------------------------
(* The threads that call init_tracing and shutdown_tracing *)

\* init_tracing, lines 107-112: the check of INIT_GUARD and the reads of the
\* environment. observe_flag: VIBEPRO_OBSERVE is "1"; runtime: the thread runs
\* inside a Tokio runtime.
init_tracing_begin(t, observe_flag, runtime) ==
    /\ observe.threads[t].pc = "idle"
    /\ observe.threads[t].calls < MaxInitCalls
    /\ observe' =
         [observe EXCEPT
             !.threads[t] =
                 IF observe.INIT_GUARD # None
                 THEN [@ EXCEPT !.calls = @ + 1, !.ret = Some(Ok("guarded"))]
                 ELSE [@ EXCEPT !.calls = @ + 1, !.ret = None, !.tracer = None,
                                !.pc = IF observe_flag /\ runtime THEN "setup"
                                       ELSE "try_init"]]
    /\ UNCHANGED <<db, result, inserted, named, batch, reader, call, perf, recorded, repo>>

\* setup_otlp_exporter up to OTLP_TRACER_PROVIDER.set: the exporter and the
\* provider are built and the provider is offered to the cell; fault: build()
\* of the exporter fails and init_tracing returns the error.
setup_otlp_exporter_build(t, fault) ==
    /\ observe.threads[t].pc = "setup"
    /\ observe' =
         IF fault
         THEN [observe EXCEPT !.threads[t].pc = "idle",
                              !.threads[t].ret = Some(Err("ExporterBuildError"))]
         ELSE LET provider == observe.providers + 1
              IN [observe EXCEPT
                     !.providers = provider,
                     !.OTLP_TRACER_PROVIDER = OnceCell_set(@, provider),
                     !.threads[t].tracer = Some(provider),
                     !.threads[t].pc = "install"]
    /\ UNCHANGED <<db, result, inserted, named, batch, reader, call, perf, recorded, repo>>

\* setup_otlp_exporter: opentelemetry::global::set_tracer_provider(provider_handle)
setup_otlp_exporter_install(t) ==
    /\ observe.threads[t].pc = "install"
    /\ observe' = [observe EXCEPT
                      !.global_tracer_provider = observe.threads[t].tracer,
                      !.installs = @ + 1,
                      !.threads[t].pc = "try_init"]
    /\ UNCHANGED <<db, result, inserted, named, batch, reader, call, perf, recorded, repo>>

\* init_tracing: build_base_subscriber()...try_init(), its error only logged
init_tracing_try_init(t) ==
    /\ observe.threads[t].pc = "try_init"
    /\ observe' = [observe EXCEPT
                      !.subscriber = try_init(@, [tracer |-> observe.threads[t].tracer]),
                      !.threads[t].pc = "guard"]
    /\ UNCHANGED <<db, result, inserted, named, batch, reader, call, perf, recorded, repo>>

\* init_tracing, lines 189-190: INIT_GUARD.set(()) and Ok(())
init_tracing_end(t) ==
    /\ observe.threads[t].pc = "guard"
    /\ observe' = [observe EXCEPT
                      !.INIT_GUARD = OnceCell_set(@, "()"),
                      !.threads[t].pc = "idle",
                      !.threads[t].ret = Some(Ok("initialized"))]
    /\ UNCHANGED <<db, result, inserted, named, batch, reader, call, perf, recorded, repo>>

\* shutdown_tracing, called when no init_tracing call is running
shutdown_tracing ==
    /\ \A t \in Threads : observe.threads[t].pc = "idle"
    /\ observe.OTLP_TRACER_PROVIDER # None
    /\ observe.shut = None
    /\ observe' = [observe EXCEPT
                      !.shut = Some([provider |-> observe.OTLP_TRACER_PROVIDER,
                                     global |-> observe.global_tracer_provider])]
    /\ UNCHANGED <<db, result, inserted, named, batch, reader, call, perf, recorded, repo>>

InitTracingBegin ==
    \E t \in Threads, observe_flag \in BOOLEAN, runtime \in BOOLEAN :
        init_tracing_begin(t, observe_flag, runtime)

SetupOtlpExporterBuild ==
    \E t \in Threads, fault \in BOOLEAN : setup_otlp_exporter_build(t, fault)

SetupOtlpExporterInstall == \E t \in Threads : setup_otlp_exporter_install(t)

InitTracingTryInit == \E t \in Threads : init_tracing_try_init(t)

InitTracingEnd == \E t \in Threads : init_tracing_end(t)

NextObserve ==
    \/ InitTracingBegin
    \/ SetupOtlpExporterBuild
    \/ SetupOtlpExporterInstall
    \/ InitTracingTryInit
    \/ InitTracingEnd
    \/ shutdown_tracing

SpecObserve == Init /\ [][NextObserve]_vars

\* C25: for any number of sequential or concurrent init_tracing calls, the global
\* tracer provider is installed at most once, a call made after an
\* initialization has finished returns Ok without initializing again, and the
\* provider that shutdown_tracing shuts down is the one installed globally.
InitializesOnce ==
    /\ observe.installs <= 1
    /\ observe.shut # None => observe.shut[1].provider = observe.shut[1].global
    /\ \A t \in Threads :
          observe.threads[t].ret = Some(Ok("initialized")) => observe.INIT_GUARD # None


----------------------------------------------------------------------------
(* The client of test_metrics_update: it inserts records and updates metrics *)

\* store.update_metrics(pattern_id, metrics); locals: the tables before the call.
metrics_update(pattern_id, metrics) ==
    /\ call.op = "idle"
    /\ Idle
    /\ \E o \in {update_metrics_outcome(db, pattern_id, metrics, fault) :
                    fault \in {None, Some(0), Some(1)}} :
        /\ db' = o.db
        /\ result' = Result("update_metrics", o.outcome, FALSE, 0)
        /\ call' = [op |-> "update_metrics",
                    args |-> [pattern_id |-> pattern_id, metrics |-> metrics],
                    locals |-> Some(db),
                    ret |-> IF o.outcome = "ok" THEN Ok("()") ELSE Err("Storage")]
    /\ UNCHANGED <<inserted, named, batch, reader, others>>

MetricsUpdate ==
    \E pattern_id \in PatternIds, metrics \in RankMetricsInputs :
        metrics_update(pattern_id, metrics)

\* The client inserts the test pattern, or another one with a vector of zeros.
UpdateClientInsert ==
    \E record \in SearchRecords : record.embedding.fill >= 0 /\ client_insert(record)

NextUpdate == UpdateClientInsert \/ MetricsUpdate \/ call_return

SpecUpdate == Init /\ [][NextUpdate]_vars

\* C26: update_metrics(id, m) replaces only the metrics entry of id: get_metrics(id)
\* returns m afterwards, the other four tables and the metrics entries of the other
\* ids are as before, and a failed call leaves the entry of id as before too.
UpdateMetricsFrame ==
    call.op = "update_metrics" =>
        LET before == call.locals[1]
            id == call.args.pattern_id
        IN /\ db.embeddings = before.embeddings
           /\ db.metadata = before.metadata
           /\ db.tag_index = before.tag_index
           /\ db.file_path_index = before.file_path_index
           /\ \A other \in PatternIds \ {id} : db.metrics[other] = before.metrics[other]
           /\ IF call.ret.tag = "Ok"
              THEN get_metrics(db, id) = Ok(Some(call.args.metrics))
              ELSE db.metrics[id] = before.metrics[id]

\* A successful update of the metrics of a stored pattern to other metrics, in a
\* store that holds another pattern too.
MetricsReplaced ==
    /\ call.op = "update_metrics"
    /\ call.ret.tag = "Ok"
    /\ \A id \in PatternIds : db.embeddings[id] # None /\ call.locals[1].metrics[id] # None
    /\ db.metrics[call.args.pattern_id] # call.locals[1].metrics[call.args.pattern_id]


----------------------------------------------------------------------------
(* A caller of the two dot products *)

MaxLen == 17    \* the longest slice: two full chunks and a remainder

\* Slices of whole numbers: a ramp that starts below zero, and the unit slices.
Ramp(n) == [i \in 1..n |-> 2 * i - 5]

UnitSlice(n, j) == [i \in 1..n |-> IF i = j THEN 1 ELSE 0]

Slices(n) == {Ramp(n)} \cup {UnitSlice(n, j) : j \in 1..n}

\* Both paths of dot_product_simd on one pair of slices.
dot_product(a, b) ==
    /\ call.op = "idle"
    /\ call' = [op |-> "dot_product",
                args |-> [a |-> a, b |-> b],
                locals |-> None,
                ret |-> [avx |-> dot_product_avx(a, b),
                         fallback |-> dot_product_fallback(a, b)]]
    /\ UNCHANGED <<db, result, inserted, named, batch, reader, others>>

DotProduct == \E n \in 0..MaxLen : \E a \in Slices(n), b \in Slices(n) : dot_product(a, b)

NextDot == DotProduct \/ call_return

SpecDot == Init /\ [][NextDot]_vars

RECURSIVE SumOfProducts(_, _, _)
\* a[1]*b[1] + ... + a[n]*b[n]
SumOfProducts(a, b, n) == IF n = 0 THEN 0 ELSE SumOfProducts(a, b, n - 1) + a[n] * b[n]

\* C27: for equal-length slices of any length the AVX path and the fallback path
\* compute the same sum, in which each index contributes a[i]*b[i] once.
SimdEqualsFallback ==
    call.op = "dot_product" =>
        /\ call.ret.avx = call.ret.fallback
        /\ call.ret.avx = SumOfProducts(call.args.a, call.args.b, Len(call.args.a))

\* Slices with a full chunk and a remainder whose product lies in the remainder.
RemainderCounted ==
    /\ call.op = "dot_product"
    /\ Len(call.args.a) > Lanes
    /\ Len(call.args.a) % Lanes # 0
    /\ call.args.a = UnitSlice(Len(call.args.a), Len(call.args.a))
    /\ call.ret.avx # 0


----------------------------------------------------------------------------
(* The indexes and the stored patterns *)

\* The ids whose stored pattern has the tag / lists the file path.
IdsTagged(tables, tag) ==
    {id \in PatternIds :
        /\ get_pattern(tables, id).value # None
        /\ tag \in SeqToSet(get_pattern(tables, id).value[1].tags)}

IdsAtPath(tables, file_path) ==
    {id \in PatternIds :
        /\ get_pattern(tables, id).value # None
        /\ file_path \in SeqToSet(get_pattern(tables, id).value[1].file_paths)}

\* C28 as claimed: after any sequence of insert and insert_batch calls, also ones
\* that re-insert an id with other tags or file paths, find_by_tag(t) returns
\* exactly the ids whose stored pattern has tag t and find_by_file_path(f) exactly
\* the ids whose stored pattern lists f.
IndexEqualsMetadata ==
    /\ \A tag \in Tags : SeqToSet(find_by_tag(db, tag).value) = IdsTagged(db, tag)
    /\ \A file_path \in FilePaths :
          SeqToSet(find_by_file_path(db, file_path).value) = IdsAtPath(db, file_path)

\* C28: after any sequence of insert and insert_batch calls, find_by_tag(t) returns
\* every id whose stored pattern has tag t and find_by_file_path(f) every id whose
\* stored pattern lists f, and the lists hold only ids of stored patterns.
IndexCoversMetadata ==
    /\ \A tag \in Tags :
          /\ IdsTagged(db, tag) \subseteq SeqToSet(find_by_tag(db, tag).value)
          /\ SeqToSet(find_by_tag(db, tag).value) \subseteq StoredIds
    /\ \A file_path \in FilePaths :
          /\ IdsAtPath(db, file_path) \subseteq SeqToSet(find_by_file_path(db, file_path).value)
          /\ SeqToSet(find_by_file_path(db, file_path).value) \subseteq StoredIds

\* An id was re-inserted with other tags and file paths: the entries of its earlier
\* ones still list it, next to another id whose pattern does have them.
StaleIndexEntry ==
    \E id \in PatternIds, other \in PatternIds :
        /\ id # other
        /\ {id, other} \subseteq SeqToSet(find_by_tag(db, "rust").value)
        /\ IdsTagged(db, "rust") = {other}
        /\ {id, other} \subseteq SeqToSet(find_by_file_path(db, "src/main.rs").value)
        /\ IdsAtPath(db, "src/main.rs") = {other}


----------------------------------------------------------------------------
(* The client of test_insert_batch_persists_records *)

\* Records with valid vectors: for each id the test pattern and one with other
\* tags, file paths and vector.
BatchRecords ==
    UNION {{[pattern |-> Pattern(id, <<"src/main.rs">>, <<"rust", "test">>),
             embedding |-> Vec(EMBEDDING_DIM, 1)],
            [pattern |-> Pattern(id, <<"src/lib.rs", "src/lib.rs">>, <<"test", "test">>),
             embedding |-> Vec(EMBEDDING_DIM, 2)]} : id \in PatternIds}

\* The lists of up to MaxBatch of them.
RecordLists == UNION {[1..n -> BatchRecords] : n \in 0..MaxBatch}

\* store.insert_batch(records); locals: the tables before the call.
batch_insert(records, fault) ==
    /\ call.op = "idle"
    /\ Idle
    /\ LET o == insert_batch_outcome(db, records, Now, fault)
       IN /\ db' = o.db
          /\ result' = Result("insert_batch", o.outcome, FALSE, Len(records))
          /\ call' = [op |-> "insert_batch",
                      args |-> [records |-> records],
                      locals |-> Some(db),
                      ret |-> IF o.outcome = "ok" THEN Ok("()") ELSE Err("Storage")]
    /\ UNCHANGED <<inserted, named, batch, reader, others>>

\* commit fails for the lists of one record only, to keep the model small
BatchInsert ==
    \E records \in RecordLists, fault \in BOOLEAN :
        (fault => Len(records) = 1) /\ batch_insert(records, fault)

NextBatch == BatchInsert \/ call_return

SpecBatch == Init /\ [][NextBatch]_vars

RECURSIVE InsertEach(_, _, _)
\* The committed tables after insert(pattern, embedding) on each record in list
\* order, every call later than the one before.
InsertEach(committed, records, now) ==
    IF records = <<>> THEN committed
    ELSE InsertEach(insert_outcome(committed, Head(records).pattern,
                                   Head(records).embedding, now, None).db,
                    Tail(records), now + 1)

\* The tables with the created_at field of every embedding record blanked.
IgnoringCreatedAt(tables) ==
    [tables EXCEPT
        !.embeddings = [id \in PatternIds |->
                           IF tables.embeddings[id] = None THEN None
                           ELSE Some(to_vec([from_slice(tables.embeddings[id][1])
                                                 EXCEPT !.created_at = 0]))]]

----------------------------------------------------------------------------
(* A search_filtered call, store call by store call, next to a writer *)

MaxRaces == 2    \* the most insert calls of the writer during one search

\* The records of the writer: two versions of each id that differ in the timestamp
\* of the pattern and in the direction of the vector.
RaceRecords ==
    UNION {{[pattern |-> Pattern(id, <<"src/main.rs">>, <<"rust", "test">>),
             embedding |-> Vec(EMBEDDING_DIM, 1)],
            [pattern |-> [Pattern(id, <<"src/main.rs">>, <<"rust", "test">>)
                             EXCEPT !.timestamp = Later],
             embedding |-> Vec(EMBEDDING_DIM, -1)]} : id \in PatternIds}

\* Filters whose candidate selection is one store call: list_patterns, or
\* find_by_tag for one tag.
RaceFilters == {SearchFilters_default, SearchFilters(None, None, <<"rust">>, None)}

\* The search has called the store and has not returned yet.
Searching == call.op = "searching" /\ call.locals.pc = "loop"

\* The writer's insert, which commits or fails in commit, at any time before the
\* search has its return value; seen: the committed tables that existed during a
\* search.
writer_insert(record) ==
    /\ Idle
    /\ call.op = "searching" => (Searching /\ call.locals.writes < MaxRaces)
    /\ \E fault \in {None, Some(NumWrites(record.pattern))} :
          LET o == insert_outcome(db, record.pattern, record.embedding, Now, fault)
          IN /\ db' = o.db
             /\ result' = Result("insert", o.outcome, FALSE, 0)
             /\ inserted' = IF o.outcome = "ok"
                            THEN [inserted EXCEPT ![record.pattern.id] = Some(record)]
                            ELSE inserted
             /\ named' = IF o.outcome = "ok" THEN named \cup Names(record.pattern)
                         ELSE named
    /\ call' = IF Searching
               THEN [call EXCEPT !.locals.seen = @ \cup {db'}, !.locals.writes = @ + 1]
               ELSE call
    /\ UNCHANGED <<batch, reader, others>>

\* search_filtered: get_candidate_pattern_ids, in a read transaction of its own
search_begin(query_embedding, k, filters) ==
    /\ call.op = "idle"
    /\ LET pattern_ids == get_candidate_pattern_ids(db, filters)
       IN call' = [op |-> "searching",
                   args |-> [query_embedding |-> query_embedding, k |-> k,
                             filters |-> filters],
                   locals |-> [pc |-> IF pattern_ids.tag = "Err" THEN "done" ELSE "loop",
                               pattern_ids |-> IF pattern_ids.tag = "Err" THEN <<>>
                                               ELSE pattern_ids.value,
                               n |-> 0, heap |-> <<>>, seen |-> {db}, writes |-> 0],
                   ret |-> IF pattern_ids.tag = "Err" THEN pattern_ids ELSE None]
    /\ UNCHANGED <<db, result, inserted, named, batch, reader, others>>

\* search_filtered: one pass of the loop; get_embedding_and_pattern reads the
\* tables committed now, in a read transaction of its own
search_pass ==
    /\ Searching
    /\ call.locals.n < Len(call.locals.pattern_ids)
    /\ call' = [call EXCEPT
                   !.locals.n = @ + 1,
                   !.locals.heap =
                       search_candidate(db, call.args.query_embedding, call.args.k,
                                        call.args.filters, @,
                                        call.locals.pattern_ids[call.locals.n + 1])]
    /\ UNCHANGED <<db, result, inserted, named, batch, reader, others>>

\* search_filtered: after the loop, the sort and the return value
search_end ==
    /\ Searching
    /\ call.locals.n = Len(call.locals.pattern_ids)
    /\ call' = [call EXCEPT !.locals.pc = "done",
                            !.ret = Ok(sort_by_score(call.locals.heap))]
    /\ UNCHANGED <<db, result, inserted, named, batch, reader, others>>

\* The caller takes the results.
search_return ==
    /\ call.op = "searching"
    /\ call.locals.pc = "done"
    /\ call' = IdleCall
    /\ UNCHANGED <<db, result, inserted, named, batch, reader, others>>

WriterInsert == \E record \in RaceRecords : writer_insert(record)

SearchBegin ==
    \E filters \in RaceFilters : search_begin(Vec(EMBEDDING_DIM, 1), MaxK, filters)

NextRace == WriterInsert \/ SearchBegin \/ search_pass \/ search_end \/ search_return

SpecRace == Init /\ [][NextRace]_vars

\* The search has ended with a list of results.
SearchDone == call.op = "searching" /\ call.locals.pc = "done" /\ call.ret.tag = "Ok"

\* What search_filtered returns on the tables S for the arguments of the call.
SearchOn(S) ==
    search_filtered_outcome(S, call.args.query_embedding, call.args.k, call.args.filters).ret

\* C29 as claimed: a search_filtered call next to a writer returns the list that
\* search_filtered returns on one committed state that existed during the call.
SearchIsOneSnapshot ==
    SearchDone => \E S \in call.locals.seen : call.ret = SearchOn(S)

\* C29: each result of a search_filtered call next to a writer carries the pattern
\* and the score of one committed version of its id that existed during the call,
\* and the list is the one of the single committed state when the writer commits
\* nothing during the call.
SearchResultsAreCommittedVersions ==
    SearchDone =>
        /\ \A i \in 1..Len(call.ret.value) :
              \E S \in call.locals.seen :
                  LET r == call.ret.value[i]
                      data == get_embedding_and_pattern(S, r.pattern_id).value
                  IN /\ data # None
                     /\ r.pattern = data[1][2]
                     /\ r.score = cosine_similarity(call.args.query_embedding, data[1][1])
        /\ Cardinality(call.locals.seen) = 1
              => \A S \in call.locals.seen : call.ret = SearchOn(S)

\* Two results that stem from two committed states: the list is the result of
\* the search on none of the states that existed during the call.
SearchMixedTwoStates ==
    /\ SearchDone
    /\ Len(call.ret.value) = 2
    /\ call.ret.value[1].score # call.ret.value[2].score
    /\ \A S \in call.locals.seen : call.ret # SearchOn(S)

====
